---- MODULE Spec2Model ----
(***************************************************************************)
(* The ZIP / OZX archive reader of fileglancer: ZipReader                  *)
(* (src/fileglancer/zipread.py) and OZXReader (src/fileglancer/ozxzip.py). *)
(*                                                                         *)
(* An archive file is a sequence of cells: per entry one local-header cell *)
(* followed by its data cells (one per stored or compressed byte), then    *)
(* one cell per central-directory record, then the EOCD cell.  File        *)
(* offsets are 0-based cell indexes.  The uncompressed content of entry i  *)
(* is the byte string 16*i+1, 16*i+2, ..., so a byte identifies its entry  *)
(* and its position.                                                       *)
(***************************************************************************)
EXTENDS Integers, Sequences, FiniteSets, TLC

\* ------------------------------------------------------------- bounds
MaxEntries == 4
MaxSize == 3
MaxCSize == 2
MaxBuf == 2
MaxReads == 2
FieldBits == 4

\* -------------------------------------------------- program constants
COMPRESSION_STORED == 0
COMPRESSION_DEFLATE == 8
COMPRESSION_OTHER == 12
DEFAULT_BUFFER_SIZE == 8192
ZIP64_EXTRA_ID == 1

\* the sentinel of a 32-bit header field, ZIP64_MARKER = 0xFFFFFFFF: all ones
\* in a field that is modelled FieldBits wide
ZIP64_MARKER == 2 ^ FieldBits - 1

\* the sentinel of the 16-bit entry count, ZIP64_MARKER_16 = 0xFFFF: all ones
\* in a field half as wide
ZIP64_MARKER_16 == 2 ^ (FieldBits - 1) - 1

\* Python's None for an Optional[int] argument that is otherwise >= 0.
None == 0 - 1
\* a local header of fewer than 30 bytes that starts with the signature:
\* struct.unpack('<HH', local_header[26:30]) raises
Short == 0 - 2

VARIABLES
    zip,               \* the archive file on disk (never changes)
    cls,               \* "ZipReader" or "OZXReader"
    metadata,          \* OZXReader._metadata: "None", or its json_first flag
    fh,                \* self._fh is not None
    cd_offset,         \* self._cd_offset
    cd_entries_count,  \* self._cd_entries_count
    cd_size,           \* self._cd_size
    is_zip64,          \* self._is_zip64
    entries,           \* self._entries: filename -> ZipEntry
    cd_parsed,         \* self._cd_parsed
    fpos,              \* position of the file handle
    last,              \* the last operation: its arguments and its outcome
    gen,               \* the stream generators obtained from the reader
    peer,              \* a second reader instance on the same file
    cd_reads,          \* history: how often each directory record was read
    quota              \* history: sum of the bounds of the parse calls so far

vars == <<zip, cls, metadata, fh, cd_offset, cd_entries_count, cd_size,
          is_zip64, entries, cd_parsed, fpos, last, gen, peer, cd_reads, quota>>

\* ------------------------------------------------------------ helpers
Min(a, b) == IF a < b THEN a ELSE b
Max(a, b) == IF a > b THEN a ELSE b

EmptyDict == [n \in {} |-> 0]

\* a faulty variant: the dict is replaced by the other
DictUpdateReplace(d, other) == other

\* dict.update(other)
DictUpdate(d, other) ==
    [n \in DOMAIN d \cup DOMAIN other |->
        IF n \in DOMAIN other THEN other[n] ELSE d[n]]

\* d[key] = value
DictPut(d, key, value) ==
    [n \in DOMAIN d \cup {key} |-> IF n = key THEN value ELSE d[n]]

RECURSIVE Concat(_)
\* b''.join(chunks)
Concat(chunks) ==
    IF chunks = <<>> THEN <<>> ELSE Head(chunks) \o Concat(Tail(chunks))

\* ------------------------------------------------------- the archive
Name(stem, suffix) == [stem |-> stem, suffix |-> suffix]

\* a faulty variant: no entry counts as a directory
is_directoryNever(filename) == FALSE

\* ZipEntry.is_directory: filename.endswith('/')
is_directory(filename) == filename.suffix = "/"

\* suffix of the i-th name under a naming pattern
Suffix(pat, stem) ==
    CASE pat = "txt" -> ".txt"
      [] pat = "jsonfirst" -> IF stem = 3 THEN ".bin" ELSE ".json"
      [] OTHER -> IF stem = 1 THEN "/" ELSE IF stem = 2 THEN ".ZATTRS" ELSE ".bin"

Patterns == {"txt", "jsonfirst", "dirs"}

\* JSON values: null, booleans, numbers, strings and lists by their text,
\* objects by their members; JBigInt is an integer literal of more digits
\* than int() converts
JValue(k, s, m) == [k |-> k, s |-> s, m |-> m]
JNull == JValue("null", "null", EmptyDict)
JBool(b) == JValue("bool", IF b THEN "true" ELSE "false", EmptyDict)
JNum(s) == JValue("num", s, EmptyDict)
JStr(s) == JValue("str", s, EmptyDict)
JList(s) == JValue("list", s, EmptyDict)
JBigInt == JValue("bigint", "1e5000", EmptyDict)
JObj(m) == JValue("obj", "", m)

\* the member `key` with one of the values, or no such member
Member(key, values) == {EmptyDict} \cup {key :> v : v \in values}

\* a ZIP comment: empty, text that is no JSON ("text": anything, "deep":
\* brackets nested deeper than the decoder recurses), or a JSON document
Comment(t, v) == [t |-> t, v |-> v]
NoComment == Comment("empty", JNull)
TextComment == Comment("text", JNull)
DeepComment == Comment("deep", JNull)

\* the comment of RFC-9: {"ome": {"version": "0.5", "zipFile":
\* {"centralDirectory": {"jsonFirst": b}}}}
OmeComment(b) ==
    Comment("json",
        JObj("ome" :> JObj(("version" :> JStr("0.5"))
             @@ ("zipFile" :> JObj("centralDirectory" :>
                                   JObj("jsonFirst" :> JBool(b)))))))

\* ZIP comments: none, OME metadata with jsonFirst true, with jsonFirst false
Comments == {NoComment, OmeComment(TRUE), OmeComment(FALSE)}

JsonFirstValues ==
    {JBool(TRUE), JBool(FALSE), JNull, JStr("false"), JNum("1"), JNum("0")}

CentralDirectoryValues ==
    {JList("[1]")} \cup {JObj(m) : m \in Member("jsonFirst", JsonFirstValues)}

ZipFileValues ==
    {JStr("x")}
    \cup {JObj(m) : m \in Member("centralDirectory", CentralDirectoryValues)}

VersionValues == {JStr("0.5"), JNum("0.5"), JNull, JBool(TRUE), JBigInt}

OmeValues ==
    {JStr("version"), JList("[1]")}
    \cup {JObj(v @@ z) : v \in Member("version", VersionValues),
                         z \in Member("zipFile", ZipFileValues)}

\* every comment the metadata parser is tried on
MetaComments ==
    {NoComment, TextComment, DeepComment}
    \cup {Comment("json", v) :
             v \in {JList("[1]"), JNull, JStr("ome"), JBigInt,
                    JObj("other" :> JStr("data"))}}
    \cup {Comment("json", JObj("ome" :> o)) : o \in OmeValues}

RECURSIVE LocalOffset(_, _)
\* offset of the local header of entry i (entries are laid out in order)
LocalOffset(recs, i) ==
    IF i <= 1 THEN 0
    ELSE LocalOffset(recs, i - 1) + 1 + recs[i - 1].comp_size

Cell(t, rec, k) == [t |-> t, rec |-> rec, k |-> k]

RECURSIVE EntryCells(_, _)
EntryCells(recs, i) ==
    IF i > Len(recs) THEN <<>>
    ELSE <<Cell("lh", i, 0)>>
         \o [k \in 1..recs[i].comp_size |-> Cell("data", i, k)]
         \o EntryCells(recs, i + 1)

\* the file, cell by cell
FileCells(recs) ==
    EntryCells(recs, 1)
    \o [i \in 1..Len(recs) |-> Cell("cd", i, 0)]
    \o <<Cell("eocd", 0, 0)>>

\* `eocd = data[eocd_pos:eocd_pos + 22]`: the bytes of an EOCD record without
\* its comment
EOCD_SIZE == 22

\* The classic archive file for the given directory records: the EOCD holds
\* the real offset, size and count of the directory (eocd_marked names the
\* EOCD fields that hold a ZIP64 marker instead: none).
\* the archive file for the given directory records: each record gets the
\* offset of its local header; the EOCD declares `declared` records and
\* carries the comment.  `marked` names the 32-bit fields of the record that
\* hold ZIP64_MARKER in the file, `extra` is its extra field: a sequence of
\* blocks [id, data], data being the 8-byte values of the block.
\* eocd_dist is the number of bytes from the start of the EOCD record to the
\* end of the file (0: the file has no EOCD record), sig_dist the same for
\* the last EOCD signature among the bytes that follow the record (0: there
\* is none) and fake the fields that the bytes after that signature spell.
Archive(recs, declared, comment) ==
    [recs |-> [i \in 1..Len(recs) |->
                  [filename |-> recs[i].filename,
                   compression |-> recs[i].compression,
                   comp_size |-> recs[i].comp_size,
                   uncomp_size |-> recs[i].uncomp_size,
                   sig_ok |-> recs[i].sig_ok,
                   marked |-> recs[i].marked,
                   extra |-> recs[i].extra,
                   local_offset |-> LocalOffset(recs, i)]],
     declared |-> declared,
     comment |-> comment,
     cd_offset |-> LocalOffset(recs, Len(recs) + 1),
     cd_size |-> Len(recs),
     eocd_marked |-> {},
     eocd64_offset |-> 0,
     eocd_dist |-> EOCD_SIZE,
     sig_dist |-> 0,
     fake |-> [cd_entries_total |-> 0, cd_size |-> 0, cd_offset |-> 0],
     file |-> FileCells(recs)]

\* A directory-shaped archive: n one-byte STORE entries; record `bad` (if any)
\* has a wrong signature; with dup the last record repeats the first name;
\* the EOCD declares `declared` records.
DirArchive(n, pat, bad, dup, declared, comment) ==
    Archive([i \in 1..n |->
               [filename |-> Name(IF dup /\ i = n THEN 1 ELSE i,
                                  Suffix(pat, IF dup /\ i = n THEN 1 ELSE i)),
                compression |-> COMPRESSION_STORED,
                comp_size |-> 1,
                uncomp_size |-> 1,
                sig_ok |-> (i # bad),
                marked |-> {},
                extra |-> <<>>]],
            declared, comment)

DirArchives ==
    {DirArchive(n, "txt", 0, FALSE, n, NoComment) : n \in 1..MaxEntries}
    \cup {DirArchive(n, "txt", bad, FALSE, n, NoComment) :
             n \in 2..MaxEntries, bad \in 2..MaxEntries}
    \cup {DirArchive(n, "txt", 0, FALSE, n + 1, NoComment) : n \in 1..MaxEntries}
    \cup {DirArchive(n, "txt", 0, TRUE, n, NoComment) : n \in 2..MaxEntries}
    \cup {DirArchive(n, pat, 0, FALSE, n, c) :
             n \in 3..MaxEntries, pat \in Patterns \ {"txt"}, c \in Comments}

\* A content-shaped archive: the first entry has the given method and sizes,
\* the second is a one-byte STORE entry.
ContentArchive(method, usize, csize) ==
    Archive(<<[filename |-> Name(1, ".bin"),
               compression |-> method,
               comp_size |-> csize,
               uncomp_size |-> usize,
               sig_ok |-> TRUE,
               marked |-> {},
               extra |-> <<>>],
              [filename |-> Name(2, ".txt"),
               compression |-> COMPRESSION_STORED,
               comp_size |-> 1,
               uncomp_size |-> 1,
               sig_ok |-> TRUE,
               marked |-> {},
               extra |-> <<>>]>>,
            2, NoComment)

ContentArchives ==
    {ContentArchive(COMPRESSION_STORED, s, s) : s \in 0..MaxSize}
    \cup {ContentArchive(COMPRESSION_DEFLATE, s, c) : s \in 0..MaxSize, c \in 1..MaxCSize}
    \cup {ContentArchive(COMPRESSION_OTHER, 1, 1)}

\* the 8-byte values a ZIP64 extra field holds for a record with the marked
\* fields: the real values, in the order uncomp_size, comp_size, local offset
Zip64Values(marked, usize, csize, offset) ==
    (IF "uncomp" \in marked THEN <<usize>> ELSE <<>>)
    \o (IF "comp" \in marked THEN <<csize>> ELSE <<>>)
    \o (IF "offset" \in marked THEN <<offset>> ELSE <<>>)

\* extra fields of a record: with a ZIP64 block holding the values, without
\* any block, with a ZIP64 block that lacks the last value, with the ZIP64
\* block behind a block of another id
ExtraKinds == {"zip64", "none", "short", "behind"}

ExtraField(kind, values) ==
    CASE kind = "zip64" -> <<[id |-> ZIP64_EXTRA_ID, data |-> values]>>
      [] kind = "short" ->
            <<[id |-> ZIP64_EXTRA_ID,
               data |-> SubSeq(values, 1, Len(values) - 1)]>>
      [] kind = "behind" ->
            <<[id |-> ZIP64_EXTRA_ID + 1, data |-> <<0>>],
              [id |-> ZIP64_EXTRA_ID, data |-> values]>>
      [] OTHER -> <<>>

\* An archive with ZIP64 records: two STORE entries of usize bytes; the
\* second has the marked fields and the extra field of the given kind.
Zip64Archive(marked, kind, usize) ==
    Archive(<<[filename |-> Name(1, ".txt"),
               compression |-> COMPRESSION_STORED,
               comp_size |-> usize,
               uncomp_size |-> usize,
               sig_ok |-> TRUE,
               marked |-> {},
               extra |-> <<>>],
              [filename |-> Name(2, ".txt"),
               compression |-> COMPRESSION_STORED,
               comp_size |-> usize,
               uncomp_size |-> usize,
               sig_ok |-> TRUE,
               marked |-> marked,
               extra |-> ExtraField(kind, Zip64Values(marked, usize, usize,
                                                      usize + 1))]>>,
            2, NoComment)

Zip64Archives ==
    {Zip64Archive(marked, kind, usize) :
        marked \in SUBSET {"uncomp", "comp", "offset"},
        kind \in ExtraKinds, usize \in 1..MaxSize}

\* ZIP64 records in front of the EOCD: the ZIP64 EOCD record and its
\* locator ("good"), the record and a locator with a wrong signature
\* ("badsig"), a locator that points at something else ("badrecord"), or
\* nothing ("none")
LocatorKinds == {"good", "badsig", "badrecord", "none"}

Zip64Cells(locator) ==
    CASE locator = "good" -> <<Cell("eocd64", 0, 0), Cell("loc", 0, 0)>>
      [] locator = "badsig" -> <<Cell("eocd64", 0, 0), Cell("junk", 0, 0)>>
      [] locator = "badrecord" -> <<Cell("junk", 0, 0), Cell("loc", 0, 0)>>
      [] locator = "cutrecord" -> <<Cell("eocd64cut", 0, 0), Cell("loc", 0, 0)>>
      [] OTHER -> <<>>

\* the archive a with the EOCD fields named in marked forced to their ZIP64
\* markers and the ZIP64 records of the given kind in front of the EOCD; the
\* ZIP64 EOCD record holds the real values, the locator its offset
WithZip64(a, marked, locator) ==
    [a EXCEPT !.eocd_marked = marked,
              !.eocd64_offset = a.cd_offset + a.cd_size,
              !.file = SubSeq(a.file, 1, Len(a.file) - 1)
                       \o Zip64Cells(locator) \o <<Cell("eocd", 0, 0)>>]

EocdArchives ==
    {WithZip64(DirArchive(n, "txt", 0, FALSE, n, NoComment), marked, locator) :
        n \in 1..2, marked \in SUBSET {"offset", "size", "count"},
        locator \in LocatorKinds}

\* original uncompressed bytes of entry i
Content(z, i) == [k \in 1..z.recs[i].uncomp_size |-> 16 * i + k]

\* fh.read(n) at offset pos: the cells read (short at end of file)
ReadCells(z, pos, n) ==
    IF pos >= Len(z.file) \/ n <= 0 THEN <<>>
    ELSE SubSeq(z.file, pos + 1, Min(pos + n, Len(z.file)))

\* ------------------------------------------- central-directory parsing
\* stop_condition arguments: None, or a callback of (entry, index)
Stop(kind, k, name) == [kind |-> kind, k |-> k, name |-> name]
NoStop == Stop("None", 0, Name(0, ""))
JsonFirstStop == Stop("json_first", 0, Name(0, ""))

\* the callbacks of the tests: `return False`, `return index >= k`,
\* `return entry.filename == "file2.txt"`
StopConditions ==
    {Stop("never", 0, Name(0, "")), Stop("filename_eq", 0, Name(2, ".txt"))}
    \cup {Stop("index_ge", k, Name(0, "")) : k \in 0..(MaxEntries - 2)}

\* str.lower() on the suffixes that occur
Lower(suffix) ==
    CASE suffix = ".JSON" -> ".json"
      [] suffix = ".ZATTRS" -> ".zattrs"
      [] OTHER -> suffix

\* a faulty variant: the name is not lower-cased
is_json_fileCaseSensitive(filename) ==
    filename.suffix \in {".json", ".zattrs", ".zarray", ".zgroup"}

\* ZipEntry.is_json_file
is_json_file(filename) ==
    Lower(filename.suffix) \in {".json", ".zattrs", ".zarray", ".zgroup"}

\* a faulty variant: the callback is given a 1-based index
StopConditionOneBased(stop, entry, i) ==
    CASE stop.kind = "index_ge" -> i + 1 >= stop.k
      [] stop.kind = "filename_eq" -> entry.filename = stop.name
      [] stop.kind = "json_first" ->
            ~is_directory(entry.filename) /\ ~is_json_file(entry.filename)
      [] OTHER -> FALSE

\* stop_condition(entry, i); the jsonFirst test of OZXReader is the callback
\* "json_first"
StopCondition(stop, entry, i) ==
    CASE stop.kind = "index_ge" -> i >= stop.k
      [] stop.kind = "filename_eq" -> entry.filename = stop.name
      [] stop.kind = "json_first" ->
            ~is_directory(entry.filename) /\ ~is_json_file(entry.filename)
      [] OTHER -> FALSE

\* a 32-bit field of the directory record as it is in the file
HeaderField(rec, f, actual) == IF f \in rec.marked THEN ZIP64_MARKER ELSE actual

\* the `if header_id == ZIP64_EXTRA_ID:` block of _parse_zip64_extra: each
\* field that holds the marker takes the next 8-byte value of the data, if
\* there is one, in the order uncomp_size, comp_size, local_offset
Zip64Block(data, comp_size, uncomp_size, local_offset, idx1, idx2) ==
    <<IF comp_size = ZIP64_MARKER /\ idx1 + 1 <= Len(data)
      THEN data[idx1 + 1] ELSE comp_size,
      IF uncomp_size = ZIP64_MARKER /\ 1 <= Len(data)
      THEN data[1] ELSE uncomp_size,
      IF local_offset = ZIP64_MARKER /\ idx2 + 1 <= Len(data)
      THEN data[idx2 + 1] ELSE local_offset>>

\* idx after the uncomp_size step, and after the comp_size step
IdxAfterUncomp(data, uncomp_size) ==
    IF uncomp_size = ZIP64_MARKER /\ 1 <= Len(data) THEN 1 ELSE 0

IdxAfterComp(data, comp_size, idx1) ==
    IF comp_size = ZIP64_MARKER /\ idx1 + 1 <= Len(data) THEN idx1 + 1 ELSE idx1

RECURSIVE ParseZip64Extra(_, _, _, _)
\* ZipReader._parse_zip64_extra(extra, comp_size, uncomp_size, local_offset):
\* <<comp_size, uncomp_size, local_offset>>
ParseZip64Extra(extra, comp_size, uncomp_size, local_offset) ==
    IF extra = <<>> THEN <<comp_size, uncomp_size, local_offset>>
    ELSE IF Head(extra).id = ZIP64_EXTRA_ID
    THEN Zip64Block(Head(extra).data, comp_size, uncomp_size, local_offset,
                    IdxAfterUncomp(Head(extra).data, uncomp_size),
                    IdxAfterComp(Head(extra).data, comp_size,
                                 IdxAfterUncomp(Head(extra).data, uncomp_size)))
    ELSE ParseZip64Extra(Tail(extra), comp_size, uncomp_size, local_offset)

\* `if comp_size == ZIP64_MARKER or ...: ... = self._parse_zip64_extra(...)`
Zip64Fields(extra, comp_size, uncomp_size, local_offset) ==
    IF comp_size = ZIP64_MARKER \/ uncomp_size = ZIP64_MARKER
       \/ local_offset = ZIP64_MARKER
    THEN ParseZip64Extra(extra, comp_size, uncomp_size, local_offset)
    ELSE <<comp_size, uncomp_size, local_offset>>

\* ZipEntry(filename=..., compressed_size=comp_size, ...)
NewEntry(rec, fields) ==
    [filename |-> rec.filename,
     compressed_size |-> fields[1],
     uncompressed_size |-> fields[2],
     compression_method |-> rec.compression,
     local_header_offset |-> fields[3]]

\* the ZipEntry built from central-directory record i
ZipEntry(z, i) ==
    NewEntry(z.recs[i],
             Zip64Fields(z.recs[i].extra,
                         HeaderField(z.recs[i], "comp", z.recs[i].comp_size),
                         HeaderField(z.recs[i], "uncomp", z.recs[i].uncomp_size),
                         HeaderField(z.recs[i], "offset", z.recs[i].local_offset)))

\* len(header) < 46 or header[:4] != ZIP_CD_SIG, for the cells read as header:
\* nothing or the 22-byte EOCD is short, anything but a record has another
\* signature
\* a faulty variant: a record with an unsupported method is rejected too
HeaderInvalidOrUnsupported(z, hdr) ==
    \/ hdr = <<>>
    \/ hdr[1].t # "cd"
    \/ ~z.recs[hdr[1].rec].sig_ok
    \/ z.recs[hdr[1].rec].compression
          \notin {COMPRESSION_STORED, COMPRESSION_DEFLATE}

HeaderInvalid(z, hdr) ==
    \/ hdr = <<>>
    \/ hdr[1].t # "cd"
    \/ ~z.recs[hdr[1].rec].sig_ok

\* the directory records among the cells read
RecordsRead(hdr) == IF hdr # <<>> /\ hdr[1].t = "cd" THEN <<hdr[1].rec>> ELSE <<>>

LoopResult(status, ents, pos, reads) ==
    [status |-> status, entries |-> ents, pos |-> pos, reads |-> reads]

RECURSIVE CDLoop(_, _, _, _, _, _)
\* the loop `for i in range(self._cd_entries_count)` from iteration i on, the
\* file handle at pos, ents the local dict `entries`
CDLoop(i, pos, ents, reads, stop, max_entries) ==
    IF i >= cd_entries_count THEN LoopResult("ok", ents, pos, reads)
    ELSE IF max_entries # None /\ i >= max_entries
    THEN LoopResult("ok", ents, pos, reads)
    ELSE LET hdr == ReadCells(zip, pos, 1)
             rd == reads \o RecordsRead(hdr)
         IN  IF HeaderInvalid(zip, hdr)
             THEN LoopResult("InvalidZipError", ents, pos + Len(hdr), rd)
             ELSE LET entry == ZipEntry(zip, hdr[1].rec)
                      ents2 == DictPut(ents, entry.filename, entry)
                  IN  IF stop.kind # "None" /\ StopCondition(stop, entry, i)
                      THEN LoopResult("ok", ents2, pos + 1, rd)
                      ELSE CDLoop(i + 1, pos + 1, ents2, rd, stop, max_entries)

\* where a parse call starts reading: self._fh.seek(self._cd_offset)
ParseStart == cd_offset

\* a faulty variant: the flag is set although a stop predicate was given
ZipSetsParsedNoStopCheck(stop, max_entries) == max_entries = None

\* `if stop_condition is None and max_entries is None: self._cd_parsed = True`
ZipSetsParsed(stop, max_entries) == stop.kind = "None" /\ max_entries = None

\* `if not json_only: self._cd_parsed = True`
OzxSetsParsed(json_only) == ~json_only

\* the reader's error for "File not opened"
NotOpenedError == IF cls = "ZipReader" THEN "ZipReaderError" ELSE "OZXReaderError"

\* outcome of a call: its status, the returned dict, and the reader state after
Outcome(status, ret, ents, parsed, pos, reads) ==
    [status |-> status, ret |-> ret, entries |-> ents, cd_parsed |-> parsed,
     fpos |-> pos, reads |-> reads]

\* a call that raises or returns without touching the reader
Untouched(status, ret) == Outcome(status, ret, entries, cd_parsed, fpos, <<>>)

\* what the loop's result does to the reader
AfterLoop(r, sets_parsed) ==
    IF r.status # "ok"
    THEN Outcome(r.status, EmptyDict, entries, cd_parsed, r.pos, r.reads)
    ELSE Outcome("ok", r.entries, DictUpdate(entries, r.entries),
                 cd_parsed \/ sets_parsed, r.pos, r.reads)

\* ZipReader.parse_central_directory(stop_condition, max_entries)
ZipParse(stop, max_entries) ==
    IF ~fh THEN Untouched(NotOpenedError, EmptyDict)
    ELSE IF cd_parsed THEN Untouched("ok", entries)
    ELSE AfterLoop(CDLoop(0, ParseStart, EmptyDict, <<>>, stop, max_entries),
                   ZipSetsParsed(stop, max_entries))

\* `self._metadata and self._metadata.json_first`
HasJsonFirst(m) == \E x \in m : x.json_first

\* OZXReader.parse_central_directory(json_only)
OzxParse(json_only) ==
    IF ~fh THEN Untouched(NotOpenedError, EmptyDict)
    ELSE IF cd_parsed /\ ~json_only THEN Untouched("ok", entries)
    ELSE AfterLoop(
            CDLoop(0, ParseStart, EmptyDict, <<>>,
                   IF json_only /\ HasJsonFirst(metadata)
                   THEN JsonFirstStop ELSE NoStop,
                   None),
            OzxSetsParsed(json_only))

\* self.parse_central_directory() with the defaults
DefaultParse == IF cls = "ZipReader" THEN ZipParse(NoStop, None) ELSE OzxParse(FALSE)

\* self._entries.get(path), as a set: empty for None
Lookup(ents, path) == IF path \in DOMAIN ents THEN {ents[path]} ELSE {}

\* a faulty variant: the lookup uses the registry as it is
EnsureParsedNever == Untouched("ok", EmptyDict)

\* `if not self._cd_parsed: self.parse_central_directory()`
EnsureParsed == IF ~cd_parsed THEN DefaultParse ELSE Untouched("ok", EmptyDict)

\* `return self._entries.get(path)` after the parse with outcome p
EntryGet(p, path) ==
    [p EXCEPT !.ret = EmptyDict] @@
    [entry |-> IF p.status = "ok" THEN Lookup(p.entries, path) ELSE {}]

\* get_entry(path): the outcome, with the entry found in `entry`
GetEntryOutcome(path) == EntryGet(EnsureParsed, path)

\* ---------------------------------------------------------- the reader
Last(op, args, status, dict, entry, files, chunks) ==
    [op |-> op, args |-> args, status |-> status, dict |-> dict,
     entry |-> entry, files |-> files, chunks |-> chunks]

\* number of times i occurs in the sequence s
Count(s, i) == Cardinality({j \in DOMAIN s : s[j] = i})

\* the reader state after a call with outcome o; a record is not read more
\* than MaxReads times in one behaviour
Commit(o) ==
    /\ \A i \in DOMAIN cd_reads : cd_reads[i] + Count(o.reads, i) <= MaxReads
    /\ entries' = o.entries
    /\ cd_parsed' = o.cd_parsed
    /\ fpos' = o.fpos
    /\ cd_reads' = [i \in DOMAIN cd_reads |-> cd_reads[i] + Count(o.reads, i)]

RECURSIVE HasBigInt(_)
\* an integer literal too long to convert occurs in the document
HasBigInt(v) ==
    \/ v.k = "bigint"
    \/ \E key \in DOMAIN v.m : HasBigInt(v.m[key])

\* json.loads(comment): the value, or the exception raised
JsonLoads(comment) ==
    CASE comment.t = "text" -> [status |-> "JSONDecodeError", v |-> JNull]
      [] comment.t = "deep" -> [status |-> "RecursionError", v |-> JNull]
      [] HasBigInt(comment.v) -> [status |-> "ValueError", v |-> JNull]
      [] OTHER -> [status |-> "ok", v |-> comment.v]

\* dict.get(key, default)
JGet(obj, key, default) == IF key \in DOMAIN obj.m THEN obj.m[key] ELSE default

\* str(value)
PyStr(v) ==
    CASE v.k = "null" -> "None"
      [] v.k = "bool" -> IF v.s = "true" THEN "True" ELSE "False"
      [] OTHER -> v.s

\* bool(value)
PyBool(v) ==
    CASE v.k = "null" -> FALSE
      [] v.k = "bool" -> v.s = "true"
      [] v.k = "num" -> v.s # "0"
      [] v.k = "str" -> v.s # ""
      [] v.k = "list" -> v.s # "[]"
      [] OTHER -> DOMAIN v.m # {}

\* outcome of _parse_zip_comment: the status, and the metadata returned as
\* a set (empty for None)
MetaResult(status, ret) == [status |-> status, ret |-> ret]

OZXMetadata(version, json_first, raw_comment) ==
    [version |-> version, json_first |-> json_first, raw_comment |-> raw_comment]

\* the jsonFirst flag of the "ome" object: False unless zipFile and
\* centralDirectory are objects
JsonFirstOfCd(cd) ==
    IF cd.k = "obj" THEN PyBool(JGet(cd, "jsonFirst", JBool(FALSE))) ELSE FALSE

JsonFirstOfZipFile(zip_file) ==
    IF zip_file.k = "obj"
    THEN JsonFirstOfCd(JGet(zip_file, "centralDirectory", JObj(EmptyDict)))
    ELSE FALSE

JsonFirstOf(ome) == JsonFirstOfZipFile(JGet(ome, "zipFile", JObj(EmptyDict)))

\* the part of _parse_zip_comment after `ome = data['ome']`
ParseOme(comment, ome) ==
    IF ome.k # "obj" \/ "version" \notin DOMAIN ome.m THEN MetaResult("ok", {})
    ELSE MetaResult("ok", {OZXMetadata(PyStr(ome.m["version"]),
                                       JsonFirstOf(ome), comment)})

\* the part of _parse_zip_comment after json.loads, which ended as r: only
\* JSONDecodeError is caught
ParseLoaded(comment, r) ==
    CASE r.status = "JSONDecodeError" -> MetaResult("ok", {})
      [] r.status # "ok" -> MetaResult(r.status, {})
      [] r.v.k # "obj" \/ "ome" \notin DOMAIN r.v.m -> MetaResult("ok", {})
      [] OTHER -> ParseOme(comment, r.v.m["ome"])

\* OZXReader._parse_zip_comment
ParseZipComment(comment) ==
    IF comment.t = "empty" THEN MetaResult("ok", {})
    ELSE ParseLoaded(comment, JsonLoads(comment))

\* zlib.decompressobj(-MAX_WBITS): nothing fed, nothing produced
NewDecompressor == [rec |-> 0, fed |-> 0, out |-> 0, ok |-> TRUE, output |-> <<>>]

\* the variables of a range loop: the file position, compressed_remaining,
\* decompressed_pos, output_remaining, the decompressor, the chunks yielded
LoopVars(pos, compressed_remaining, output_remaining) ==
    [pos |-> pos, compressed_remaining |-> compressed_remaining,
     decompressed_pos |-> 0, output_remaining |-> output_remaining,
     d |-> NewDecompressor, chunks |-> <<>>]

\* the names of the generator objects a caller holds
GenIds == {"g1", "g2"}

\* no generator under that name
NoGen ==
    [st |-> "none", op |-> "", path |-> [stem |-> 0, suffix |-> ""],
     start |-> 0, end |-> 0, buffer_size |-> 0, method |-> 0,
     v |-> LoopVars(0, 0, 0), flushed |-> FALSE, status |-> "ok"]

\* the variables of one reader instance
ReaderVars ==
    <<metadata, fh, cd_offset, cd_entries_count, cd_size, is_zip64, entries,
      cd_parsed, fpos, last, gen, cd_reads, quota>>

\* __init__ of a reader for an archive of the set A: nothing opened,
\* nothing parsed
InitOn(A) ==
    /\ zip \in A
    /\ cls \in {"ZipReader", "OZXReader"}
    /\ metadata = {}
    /\ fh = FALSE
    /\ cd_offset = 0
    /\ cd_entries_count = 0
    /\ cd_size = 0
    /\ is_zip64 = FALSE
    /\ entries = EmptyDict
    /\ cd_parsed = FALSE
    /\ fpos = 0
    /\ last = Last("init", <<>>, "ok", EmptyDict, {}, {}, <<>>)
    /\ cd_reads = [i \in 1..Len(zip.recs) |-> 0]
    /\ quota = 0
    /\ gen = [i \in GenIds |-> NoGen]
    /\ peer = ReaderVars

\* struct.unpack of the classic EOCD: the fields as they are in the file
EocdFields(z) ==
    [cd_entries_total |-> IF "count" \in z.eocd_marked THEN ZIP64_MARKER_16
                          ELSE z.declared,
     cd_size |-> IF "size" \in z.eocd_marked THEN ZIP64_MARKER ELSE z.cd_size,
     cd_offset |-> IF "offset" \in z.eocd_marked THEN ZIP64_MARKER
                   ELSE z.cd_offset]

\* a faulty variant: the 16-bit entry count is not looked at
Zip64TriggeredNoCount(eocd) ==
    eocd.cd_offset = ZIP64_MARKER \/ eocd.cd_size = ZIP64_MARKER

\* `if (cd_offset == ZIP64_MARKER or cd_size == ZIP64_MARKER or
\*      cd_entries_total == ZIP64_MARKER_16):`
Zip64Triggered(eocd) ==
    \/ eocd.cd_offset = ZIP64_MARKER
    \/ eocd.cd_size = ZIP64_MARKER
    \/ eocd.cd_entries_total = ZIP64_MARKER_16

\* outcome of _parse_eocd: what it leaves in the reader
Located(status, offset, size, count, zip64, pos) ==
    [status |-> status, cd_offset |-> offset, cd_size |-> size,
     cd_entries_count |-> count, is_zip64 |-> zip64, fpos |-> pos]

\* _parse_zip64_eocd raised after reading up to pos
Zip64Failed(pos) ==
    Located("InvalidZipError", cd_offset, cd_size, cd_entries_count, TRUE, pos)

\* zip64_eocd = self._fh.read(56) at the offset the locator gives
Eocd64Read(z, record, pos) ==
    IF record = <<>> \/ record[1].t \notin {"eocd64", "eocd64cut"}
    THEN Zip64Failed(pos + Len(record))
    ELSE IF record[1].t = "eocd64cut"
    THEN Located("struct.error", cd_offset, cd_size, cd_entries_count, TRUE,
                 Len(z.file))
    ELSE Located("ok", z.cd_offset, z.cd_size, z.declared, TRUE, pos + 1)

\* locator = self._fh.read(20) at loc_pos
LocatorRead(z, locator, loc_pos) ==
    IF locator = <<>> \/ locator[1].t # "loc"
    THEN Zip64Failed(loc_pos + Len(locator))
    ELSE Eocd64Read(z, ReadCells(z, z.eocd64_offset, 1), z.eocd64_offset)

\* ZipReader._parse_zip64_eocd(eocd_pos): the locator is the 20 bytes in
\* front of the EOCD
ParseZip64Eocd(z, eocd_pos) ==
    IF eocd_pos - 1 < 0 THEN Zip64Failed(Len(z.file))
    ELSE LocatorRead(z, ReadCells(z, eocd_pos - 1, 1), eocd_pos - 1)

\* the ZIP64 check of _parse_eocd for the EOCD fields read
EocdParsed(z, eocd) ==
    IF Zip64Triggered(eocd) THEN ParseZip64Eocd(z, Len(z.file) - 1)
    ELSE Located("ok", eocd.cd_offset, eocd.cd_size, eocd.cd_entries_total,
                 is_zip64, Len(z.file))

\* Maximum EOCD search size (65KB comment + 22 byte EOCD header)
MAX_EOCD_SEARCH_SIZE == 65536 + 22

\* a signature that starts dist bytes before the end of the file is in
\* data, the last min(MAX_EOCD_SEARCH_SIZE, file_size) bytes of the file
InWindow(dist) == dist # 0 /\ dist <= MAX_EOCD_SEARCH_SIZE

\* `eocd_pos = data.rfind(ZIP_EOCD_SIG)`, as the distance from the end of the
\* file: the last signature in data, 0 when there is none
FoundDist(z) ==
    IF InWindow(z.sig_dist) THEN z.sig_dist
    ELSE IF InWindow(z.eocd_dist) THEN z.eocd_dist
    ELSE 0

\* _parse_eocd raised after reading data
EocdFailed(z) ==
    Located("InvalidZipError", cd_offset, cd_size, cd_entries_count, is_zip64,
            Len(z.file))

\* _parse_eocd for the signature found dist bytes before the end of the file
EocdAt(z, dist) ==
    IF dist = 0 THEN EocdFailed(z)
    ELSE IF dist < EOCD_SIZE THEN EocdFailed(z)
    ELSE IF dist = z.eocd_dist THEN EocdParsed(z, EocdFields(z))
    ELSE EocdParsed(z, z.fake)

\* the comment _parse_eocd takes: the bytes after the record that was found
EocdComment(z) == IF FoundDist(z) = z.eocd_dist THEN z.comment ELSE NoComment

\* ZipReader._parse_eocd
ParseEocd(z) == EocdAt(z, FoundDist(z))

\* the last statement of OZXReader._parse_eocd, reached when the EOCD
\* records were parsed: self._metadata = self._parse_zip_comment(comment)
CommentParsed(o) ==
    IF cls = "OZXReader" /\ o.status = "ok" THEN ParseZipComment(EocdComment(zip))
    ELSE MetaResult(o.status, {})

\* open() with the EOCD records parsed as o and the comment as m: the file
\* stays open when _parse_eocd raises
Opened(o, m) ==
    /\ fh' = TRUE
    /\ cd_offset' = o.cd_offset
    /\ cd_size' = o.cd_size
    /\ cd_entries_count' = o.cd_entries_count
    /\ is_zip64' = o.is_zip64
    /\ fpos' = o.fpos
    /\ metadata' = IF cls = "OZXReader" /\ m.status = "ok" THEN m.ret
                   ELSE metadata
    /\ last' = Last("open", <<>>, m.status, EmptyDict, {}, {}, <<>>)

\* the EOCD records parsed as o
OpenedWith(o) == Opened(o, CommentParsed(o))

\* open(): open the file and parse the EOCD
Open ==
    /\ ~fh
    /\ OpenedWith(ParseEocd(zip))
    /\ quota' = IF last.op = "init" THEN quota ELSE None
    /\ UNCHANGED <<zip, cls, entries, cd_parsed, cd_reads, gen, peer>>

\* close()
Close ==
    /\ fh
    /\ fh' = FALSE
    /\ last' = Last("close", <<>>, "ok", EmptyDict, {}, {}, <<>>)
    /\ quota' = None
    /\ UNCHANGED <<zip, cls, metadata, cd_offset, cd_entries_count, cd_size,
                   is_zip64, entries, cd_parsed, fpos, cd_reads, gen,
                   peer>>

\* OZXReader.get_metadata(): return self._metadata
GetMetadata ==
    /\ cls = "OZXReader"
    /\ last' = Last("get_metadata", <<>>, "ok", EmptyDict, metadata, {}, <<>>)
    /\ quota' = None
    /\ UNCHANGED <<zip, cls, metadata, fh, cd_offset, cd_entries_count, cd_size,
                   is_zip64, entries, cd_parsed, fpos, cd_reads, gen,
                   peer>>

\* the bound a call adds to the history sum: max_entries, or everything
BoundOf(max_entries) == IF max_entries = None THEN cd_entries_count ELSE max_entries

\* a parse call with outcome o: the reader state after it, the dict returned
\* in `last`
Parsed(args, o) ==
    /\ Commit(o)
    /\ last' = Last("parse_central_directory", args, o.status, o.ret, {}, {}, <<>>)

\* ZipReader.parse_central_directory(stop_condition=stop, max_entries=max_entries)
ParseCentralDirectory(stop, max_entries) ==
    /\ cls = "ZipReader"
    /\ Parsed(<<stop, max_entries>>, ZipParse(stop, max_entries))
    /\ quota' = IF quota # None /\ fh /\ stop = NoStop
                THEN Min(cd_entries_count, quota + BoundOf(max_entries))
                ELSE None
    /\ UNCHANGED <<zip, cls, metadata, fh, cd_offset, cd_entries_count, cd_size,
                   is_zip64, gen, peer>>

\* OZXReader.parse_central_directory(json_only=json_only)
OzxParseCentralDirectory(json_only) ==
    /\ cls = "OZXReader"
    /\ Parsed(<<json_only>>, OzxParse(json_only))
    /\ quota' = None
    /\ UNCHANGED <<zip, cls, metadata, fh, cd_offset, cd_entries_count, cd_size,
                   is_zip64, gen, peer>>

\* a get_entry call with outcome o
Got(path, o) ==
    /\ Commit(o)
    /\ last' = Last("get_entry", <<path>>, o.status, EmptyDict, o.entry, {}, <<>>)

\* get_entry(path)
GetEntry(path) ==
    /\ Got(path, GetEntryOutcome(path))
    /\ quota' = None
    /\ UNCHANGED <<zip, cls, metadata, fh, cd_offset, cd_entries_count, cd_size,
                   is_zip64, gen, peer>>

\* name.startswith(prefix), for the prefixes "" (0) and the stem k
StartsWith(filename, prefix) == prefix = 0 \/ filename.stem = prefix

\* a list_files call whose parse had outcome o: the names that are returned
Listed(prefix, o) ==
    /\ Commit(o)
    /\ last' = Last("list_files", <<prefix>>, o.status, EmptyDict, {},
                    IF o.status = "ok"
                    THEN {n \in DOMAIN o.entries :
                             StartsWith(n, prefix) /\ ~is_directory(n)}
                    ELSE {},
                    <<>>)

\* list_files(prefix)
ListFiles(prefix) ==
    /\ Listed(prefix, EnsureParsed)
    /\ quota' = None
    /\ UNCHANGED <<zip, cls, metadata, fh, cd_offset, cd_entries_count, cd_size,
                   is_zip64, gen, peer>>

\* the arguments the operations are called with
MaxEntriesArgs == {None} \cup 0..MaxEntries
ParseArgs ==
    {<<NoStop, m>> : m \in MaxEntriesArgs}
    \cup {<<stop, None>> : stop \in StopConditions}
    \cup {<<Stop("index_ge", 2, Name(0, "")), 1>>, <<Stop("never", 0, Name(0, "")), 2>>}
Paths == {Name(i, ".txt") : i \in 1..3} \cup {Name(9, ".txt")}
Prefixes == 0..1

\* a reader used on the directory-shaped archives
Init == InitOn(DirArchives)

Next ==
    \/ Open
    \/ Close
    \/ \E a \in ParseArgs : ParseCentralDirectory(a[1], a[2])
    \/ \E json_only \in BOOLEAN : OzxParseCentralDirectory(json_only)
    \/ \E path \in Paths : GetEntry(path)
    \/ \E prefix \in Prefixes : ListFiles(prefix)

Spec == Init /\ [][Next]_vars

\* --------------------------------------------------- content extraction
\* the byte a read returns for a cell: a content byte for the data of a STORE
\* entry, a compressed byte (1000 and up) for other data, 0 for a header cell
RawByte(z, c) ==
    IF c.t # "data" THEN 0
    ELSE IF z.recs[c.rec].compression = COMPRESSION_STORED
    THEN 16 * c.rec + c.k
    ELSE 1000 + 16 * c.rec + c.k

RawBytes(z, cells) == [j \in 1..Len(cells) |-> RawByte(z, cells[j])]

\* get_entry with the not-opened check before it and FileNotFoundError after,
\* as stream_file and stream_file_range start
\* `if entry is None: raise FileNotFoundError`
RequireEntry(g) ==
    IF g.status = "ok" /\ g.entry = {}
    THEN [g EXCEPT !.status = "FileNotFoundError"]
    ELSE g

StreamLookup(path) ==
    IF ~fh THEN Untouched(NotOpenedError, EmptyDict) @@ [entry |-> {}]
    ELSE RequireEntry(GetEntryOutcome(path))

\* seek(entry.local_header_offset), read(30), check the signature, skip the
\* name and extra fields: the offset of the file data, None for a bad header
DataStart(entry) ==
    LET h == ReadCells(zip, entry.local_header_offset, 1)
    IN  IF h = <<>> \/ h[1].t \notin {"lh", "lhcut"} THEN None
        ELSE IF h[1].t = "lhcut" THEN Short
        ELSE entry.local_header_offset + 1

\* the exception of the local header for which DataStart gave no offset
HeaderError(data) == IF data = Short THEN "struct.error" ELSE "InvalidZipError"

\* a faulty variant: every read asks for a whole buffer
ChunkSizeWholeBuffer(buffer_size, remaining) == buffer_size

\* chunk_size = min(buffer_size, remaining)
ChunkSize(buffer_size, remaining) == Min(buffer_size, remaining)

Loop(status, pos, chunks) == [status |-> status, pos |-> pos, chunks |-> chunks]

RECURSIVE StoreLoop(_, _, _, _)
\* `while remaining > 0:` of a STORE entry, the file handle at pos
StoreLoop(pos, remaining, buffer_size, chunks) ==
    IF remaining <= 0 THEN Loop("ok", pos, chunks)
    ELSE LET chunk == ReadCells(zip, pos, ChunkSize(buffer_size, remaining))
         IN  IF chunk = <<>> THEN Loop("ok", pos, chunks)
             ELSE StoreLoop(pos + Len(chunk), remaining - Len(chunk), buffer_size,
                            Append(chunks, RawBytes(zip, chunk)))

\* decompressor.decompress(cells): the cells must continue the raw-deflate
\* stream of one DEFLATE entry; the call returns the next `want` bytes of its
\* content (as many as are left), in `output`
Decompress(d, cells, want) ==
    LET r == cells[1].rec
        good == /\ d.ok
                /\ \A j \in 1..Len(cells) : cells[j] = Cell("data", r, d.fed + j)
                /\ d.rec \in {0, r}
                /\ zip.recs[r].compression = COMPRESSION_DEFLATE
        n == IF good THEN Min(want, zip.recs[r].uncomp_size - d.out) ELSE 0
    IN  [rec |-> r, fed |-> d.fed + Len(cells), out |-> d.out + n, ok |-> good,
         output |-> IF good THEN SubSeq(Content(zip, r), d.out + 1, d.out + n)
                    ELSE <<>>]

\* decompressor.flush(): what is left of the content once the whole stream
\* was fed
Flush(d) ==
    IF d.ok /\ d.rec # 0 /\ d.fed = zip.recs[d.rec].comp_size
    THEN SubSeq(Content(zip, d.rec), d.out + 1, zip.recs[d.rec].uncomp_size)
    ELSE <<>>

RECURSIVE DeflateLoop(_, _, _, _, _, _)
\* `while remaining > 0:` of a DEFLATE entry and the final flush; split[j] is
\* the number of bytes the j-th decompress call returns
DeflateLoop(pos, remaining, buffer_size, d, chunks, split) ==
    LET cells == IF remaining > 0
                 THEN ReadCells(zip, pos, ChunkSize(buffer_size, remaining))
                 ELSE <<>>
    IN  IF cells = <<>>
        THEN LET final == Flush(d)
             IN  Loop("ok", pos, IF final # <<>> THEN Append(chunks, final) ELSE chunks)
        ELSE LET d2 == Decompress(d, cells, Head(split))
             IN  IF ~d2.ok THEN Loop("zlib.error", pos + Len(cells), chunks)
                 ELSE DeflateLoop(pos + Len(cells), remaining - Len(cells),
                                  buffer_size, d2,
                                  IF d2.output # <<>> THEN Append(chunks, d2.output)
                                  ELSE chunks,
                                  Tail(split))

\* the outcome of a stream: the lookup's reader state, the file handle at pos
Streamed(g, status, pos, chunks) ==
    [g EXCEPT !.status = status, !.fpos = pos] @@ [chunks |-> chunks]

\* list(stream_file(path, buffer_size)): the chunks yielded until the
\* generator ends or raises
\* the outcome of a stream whose read loop ended as r
StreamedLoop(g, r) == Streamed(g, r.status, r.pos, r.chunks)

\* the entry a successful lookup found
TheEntry(g) == CHOOSE e \in g.entry : TRUE

\* stream_file from the local header on: data is the offset of the file data
StreamData(g, entry, data, buffer_size, split) ==
    IF data < 0
    THEN Streamed(g, HeaderError(data), entry.local_header_offset + 1, <<>>)
    ELSE IF entry.compression_method = COMPRESSION_STORED
    THEN StreamedLoop(g, StoreLoop(data, entry.uncompressed_size, buffer_size, <<>>))
    ELSE IF entry.compression_method = COMPRESSION_DEFLATE
    THEN StreamedLoop(g, DeflateLoop(data, entry.compressed_size, buffer_size,
                                     NewDecompressor, <<>>, split))
    ELSE Streamed(g, "InvalidZipError", data, <<>>)

\* stream_file after the lookup with outcome g
StreamEntry(g, buffer_size, split) ==
    IF g.status # "ok" THEN g @@ [chunks |-> <<>>]
    ELSE StreamData(g, TheEntry(g), DataStart(TheEntry(g)), buffer_size, split)

StreamFile(path, buffer_size, split) ==
    StreamEntry(StreamLookup(path), buffer_size, split)

\* a faulty variant: only the negative start is checked
RangeInvalidStartOnly(start, end) == start < 0

\* `if start < 0` / `if end < start`: the range is a ValueError
RangeInvalid(start, end) == start < 0 \/ end < start

\* a faulty variant: end is not clamped
ClampEndNot(end, size) == end

\* end = min(end, entry.uncompressed_size - 1)
ClampEnd(end, size) == Min(end, size - 1)

\* a faulty variant: nothing of the chunk is skipped
SkipInChunkNever(decompressed_pos, start) == 0

\* chunk_start: how much of a decompressed chunk lies before the range
SkipInChunk(decompressed_pos, start) ==
    IF decompressed_pos < start THEN start - decompressed_pos ELSE 0

\* the flush after the range loop: `if output_remaining > 0:` ...
RangeFinal(v, start) ==
    IF v.output_remaining > 0
    THEN LET final == Flush(v.d)
             chunk_len == Len(final)
             chunk_start == Max(0, start - v.decompressed_pos)
             output_bytes == Min(chunk_len - chunk_start, v.output_remaining)
         IN  IF final # <<>> /\ v.decompressed_pos + chunk_len > start
                /\ output_bytes > 0
             THEN Loop("ok", v.pos,
                       Append(v.chunks,
                              SubSeq(final, chunk_start + 1, chunk_start + output_bytes)))
             ELSE Loop("ok", v.pos, v.chunks)
    ELSE Loop("ok", v.pos, v.chunks)

\* the loop's variables after `compressed_remaining -= len(compressed_chunk)`
\* and the decompress call that left the decompressor as d2
AfterRead(v, cells, d2) ==
    [v EXCEPT !.pos = @ + Len(cells),
              !.compressed_remaining = @ - Len(cells),
              !.d = d2]

\* the part of the iteration that yields: output_bytes of the decompressed
\* chunk from chunk_start on
RangeYield(v, decompressed, chunk_start, output_bytes) ==
    IF output_bytes > 0
    THEN [v EXCEPT !.decompressed_pos = @ + Len(decompressed),
                   !.output_remaining = @ - output_bytes,
                   !.chunks = Append(@, SubSeq(decompressed, chunk_start + 1,
                                               chunk_start + output_bytes))]
    ELSE [v EXCEPT !.decompressed_pos = @ + Len(decompressed)]

\* one iteration of the range loop after the read, for the decompressed chunk
RangeStep(v, decompressed, start) ==
    IF decompressed = <<>> THEN v
    ELSE IF v.decompressed_pos + Len(decompressed) <= start
    THEN [v EXCEPT !.decompressed_pos = @ + Len(decompressed)]
    ELSE RangeYield(v, decompressed, SkipInChunk(v.decompressed_pos, start),
                    Min(Len(decompressed) - SkipInChunk(v.decompressed_pos, start),
                        v.output_remaining))

\* a faulty variant: the loop reads on although the output is complete
RangeReadAll(v, buffer_size) ==
    IF v.compressed_remaining > 0
    THEN ReadCells(zip, v.pos, ChunkSize(buffer_size, v.compressed_remaining))
    ELSE <<>>

\* compressed_chunk = self._fh.read(chunk_size), inside the loop's condition
RangeRead(v, buffer_size) ==
    IF v.compressed_remaining > 0 /\ v.output_remaining > 0
    THEN ReadCells(zip, v.pos, ChunkSize(buffer_size, v.compressed_remaining))
    ELSE <<>>

RECURSIVE RangeDeflateLoop(_, _, _, _)
RECURSIVE RangeIterate(_, _, _, _, _, _)
\* the iteration for the chunk read, then the rest of the loop
RangeIterate(v, cells, d2, start, buffer_size, split) ==
    IF ~d2.ok THEN Loop("zlib.error", v.pos + Len(cells), v.chunks)
    ELSE RangeDeflateLoop(RangeStep(AfterRead(v, cells, d2), d2.output, start),
                          start, buffer_size, Tail(split))

\* `while compressed_remaining > 0 and output_remaining > 0:` of a DEFLATE
\* entry and the flush after it; v holds the loop's variables
RangeDeflateLoop(v, start, buffer_size, split) ==
    IF RangeRead(v, buffer_size) = <<>> THEN RangeFinal(v, start)
    ELSE RangeIterate(v, RangeRead(v, buffer_size),
                      Decompress(v.d, RangeRead(v, buffer_size), Head(split)),
                      start, buffer_size, split)

\* range_length = end - start + 1 after `end = min(end, size - 1)`
RangeLength(start, end, size) == ClampEnd(end, size) - start + 1

\* stream_file_range from the local header on
RangeData(g, entry, data, start, range_length, buffer_size, split) ==
    IF data < 0
    THEN Streamed(g, HeaderError(data), entry.local_header_offset + 1, <<>>)
    ELSE IF entry.compression_method = COMPRESSION_STORED
    THEN StreamedLoop(g, StoreLoop(data + start, range_length, buffer_size, <<>>))
    ELSE IF entry.compression_method = COMPRESSION_DEFLATE
    THEN StreamedLoop(g, RangeDeflateLoop(
                            [pos |-> data,
                             compressed_remaining |-> entry.compressed_size,
                             decompressed_pos |-> 0,
                             output_remaining |-> range_length,
                             d |-> NewDecompressor,
                             chunks |-> <<>>],
                            start, buffer_size, split))
    ELSE Streamed(g, "InvalidZipError", data, <<>>)

\* stream_file_range once the entry is found: the checks of the range
RangeEntry(g, entry, start, end, buffer_size, split) ==
    IF RangeInvalid(start, end)
    THEN Streamed(g, "ValueError", g.fpos, <<>>)
    ELSE IF start >= entry.uncompressed_size
    THEN Streamed(g, "ok", g.fpos, <<>>)
    ELSE RangeData(g, entry, DataStart(entry), start,
                   RangeLength(start, end, entry.uncompressed_size),
                   buffer_size, split)

\* stream_file_range after the lookup with outcome g
RangeLookedUp(g, start, end, buffer_size, split) ==
    IF g.status # "ok" THEN g @@ [chunks |-> <<>>]
    ELSE RangeEntry(g, TheEntry(g), start, end, buffer_size, split)

\* list(stream_file_range(path, start, end, buffer_size))
StreamFileRange(path, start, end, buffer_size, split) ==
    RangeLookedUp(StreamLookup(path), start, end, buffer_size, split)

\* ------------------------------------------------- streaming a reader
StreamOps == {"read_file", "stream_file", "stream_file_range"}

\* a stream call with outcome o: the reader state after it, the chunks in `last`
Yielded(op, args, o) ==
    /\ Commit(o)
    /\ last' = Last(op, args, o.status, EmptyDict, o.entry, {}, o.chunks)

\* b''.join(...) of a stream's chunks, when the stream did not raise
Joined(o) ==
    [o EXCEPT !.chunks = IF o.status = "ok" THEN <<Concat(o.chunks)>> ELSE <<>>]

\* list(reader.stream_file(path, buffer_size)); `last` keeps one stream result:
\* the next stream call follows a directory call
CallStreamFile(path, buffer_size, split) ==
    /\ last.op \notin StreamOps
    /\ Yielded("stream_file", <<path, buffer_size>>,
               StreamFile(path, buffer_size, split))
    /\ quota' = None
    /\ UNCHANGED <<zip, cls, metadata, fh, cd_offset, cd_entries_count, cd_size,
                   is_zip64, gen, peer>>

\* reader.read_file(path) = b''.join(self.stream_file(path)); the bytes
\* returned are kept as the one chunk of `last`
CallReadFile(path, split) ==
    /\ last.op \notin StreamOps
    /\ Yielded("read_file", <<path>>,
               Joined(StreamFile(path, DEFAULT_BUFFER_SIZE, split)))
    /\ quota' = None
    /\ UNCHANGED <<zip, cls, metadata, fh, cd_offset, cd_entries_count, cd_size,
                   is_zip64, gen, peer>>

\* list(reader.stream_file_range(path, start, end, buffer_size))
CallStreamFileRange(path, start, end, buffer_size, split) ==
    /\ last.op \notin StreamOps
    /\ Yielded("stream_file_range", <<path, start, end, buffer_size>>,
               StreamFileRange(path, start, end, buffer_size, split))
    /\ quota' = None
    /\ UNCHANGED <<zip, cls, metadata, fh, cd_offset, cd_entries_count, cd_size,
                   is_zip64, gen, peer>>

RECURSIVE Sum(_)
Sum(seq) == IF seq = <<>> THEN 0 ELSE Head(seq) + Sum(Tail(seq))

\* the arguments the stream calls are made with
StreamPaths == {Name(1, ".bin"), Name(2, ".txt"), Name(9, ".txt")}
Offsets == (0 - 1)..(MaxSize + 1)
BufferSizes == 1..MaxBuf

\* the directory records of the DEFLATE entries named `path`
Deflated(path) ==
    {i \in 1..Len(zip.recs) :
        /\ zip.recs[i].filename = path
        /\ zip.recs[i].compression = COMPRESSION_DEFLATE}

\* the most reads of buffer_size bytes the loop makes over comp_size bytes
Calls(comp_size, buffer_size) == (comp_size + buffer_size - 1) \div buffer_size

\* the ways the decompressor may spread the content of the entry `path` over
\* the decompress calls of a stream with this buffer size (what is left comes
\* out of the flush); no call for a path that is not a DEFLATE entry
Splits(path, buffer_size) ==
    IF Deflated(path) = {} THEN {<<>>}
    ELSE UNION {{sp \in [1..Calls(zip.recs[i].comp_size, buffer_size) -> 0..MaxSize] :
                    Sum(sp) <= zip.recs[i].uncomp_size} : i \in Deflated(path)}

\* a reader used on the content-shaped archives
InitStream == InitOn(ContentArchives)

NextStream ==
    \/ Open
    \/ Close
    \/ \E m \in {1, None} : ParseCentralDirectory(NoStop, m)
    \/ \E json_only \in BOOLEAN : OzxParseCentralDirectory(json_only)
    \/ /\ last.op \notin StreamOps
       /\ \E path \in StreamPaths, b \in BufferSizes :
             \E split \in Splits(path, b) : CallStreamFile(path, b, split)
    \/ /\ last.op \notin StreamOps
       /\ \E path \in StreamPaths :
             \E split \in Splits(path, DEFAULT_BUFFER_SIZE) :
                CallReadFile(path, split)
    \/ /\ last.op \notin StreamOps
       /\ \E path \in StreamPaths, start \in Offsets, end \in Offsets,
             b \in BufferSizes :
             \E split \in Splits(path, b) :
                CallStreamFileRange(path, start, end, b, split)

SpecStream == InitStream /\ [][NextStream]_vars

\* a few archives of both shapes: intact, with a malformed second record,
\* with an overstated count, with a repeated name, and with content of each
\* compression method
MixedArchives ==
    {DirArchive(n, "txt", 0, FALSE, n, NoComment) : n \in 1..3}
    \cup {DirArchive(3, "txt", 2, FALSE, 3, NoComment),
          DirArchive(2, "txt", 0, FALSE, 3, NoComment),
          DirArchive(3, "txt", 0, TRUE, 3, NoComment),
          DirArchive(3, "jsonfirst", 0, FALSE, 3, OmeComment(TRUE)),
          ContentArchive(COMPRESSION_STORED, 1, 1),
          ContentArchive(COMPRESSION_DEFLATE, MaxSize, MaxCSize),
          ContentArchive(COMPRESSION_OTHER, 1, 1)}

\* a reader used with every operation, on archives of both shapes
InitAll == InitOn(MixedArchives)

\* the range bounds used where the bytes of the range do not matter
RangeStarts == (0 - 1)..1

NextAll ==
    \/ Open
    \/ Close
    \/ \E a \in ParseArgs : ParseCentralDirectory(a[1], a[2])
    \/ \E json_only \in BOOLEAN : OzxParseCentralDirectory(json_only)
    \/ \E path \in Paths \cup StreamPaths : GetEntry(path)
    \/ \E prefix \in Prefixes : ListFiles(prefix)
    \/ /\ last.op \notin StreamOps
       /\ \E path \in StreamPaths, b \in BufferSizes :
             \E split \in Splits(path, b) : CallStreamFile(path, b, split)
    \/ /\ last.op \notin StreamOps
       /\ \E path \in StreamPaths :
             \E split \in Splits(path, DEFAULT_BUFFER_SIZE) :
                CallReadFile(path, split)
    \/ /\ last.op \notin StreamOps
       /\ \E path \in StreamPaths, start \in RangeStarts, end \in RangeStarts,
             b \in BufferSizes :
             \E split \in Splits(path, b) :
                CallStreamFileRange(path, start, end, b, split)

SpecAll == InitAll /\ [][NextAll]_vars

\* a reader used on the archives with ZIP64 records
InitZip64 == InitOn(Zip64Archives)

SpecZip64 == InitZip64 /\ [][Next]_vars

\* ------------------------------------------------- stream generators
\* stream_file and stream_file_range are generator functions: the call runs
\* no code, each next() runs the body up to the next yield.  A generator keeps
\* its local variables (v: remaining or compressed_remaining, decompressed_pos,
\* output_remaining, the decompressor; chunks are the chunks yielded so far),
\* but no file position: it reads self._fh wherever that is.

\* the generator object a call returns
NewGen(op, path, start, end, buffer_size) ==
    [NoGen EXCEPT !.st = "created", !.op = op, !.path = path, !.start = start,
                  !.end = end, !.buffer_size = buffer_size]

\* the generator after a next(): suspended at a yield, ended, or raised; the
\* file handle is left at v.pos
Suspended(g, v) == [g EXCEPT !.st = "suspended", !.v = v]
Ended(g, v) == [g EXCEPT !.st = "done", !.v = v]
Raised(g, status, v) == [g EXCEPT !.st = "raised", !.status = status, !.v = v]
At(g, pos) == [g.v EXCEPT !.pos = pos]

\* the STORE loop after `chunk = self._fh.read(chunk_size)`
StoreRead(g, v, chunk) ==
    IF chunk = <<>> THEN Ended(g, v)
    ELSE Suspended(g, [v EXCEPT !.pos = @ + Len(chunk),
                                !.compressed_remaining = @ - Len(chunk),
                                !.chunks = Append(@, RawBytes(zip, chunk))])

\* `while remaining > 0:` of a STORE entry up to the next yield (remaining is
\* kept in v.compressed_remaining)
StoreResume(g, v) ==
    IF v.compressed_remaining <= 0 THEN Ended(g, v)
    ELSE StoreRead(g, v, ReadCells(zip, v.pos,
                                   ChunkSize(g.buffer_size, v.compressed_remaining)))

\* `final = decompressor.flush(); if final: yield final` of stream_file
DeflateFlush(g, v, final) ==
    IF final # <<>>
    THEN Suspended([g EXCEPT !.flushed = TRUE], [v EXCEPT !.chunks = Append(@, final)])
    ELSE Ended(g, v)

RECURSIVE DeflateResume(_, _, _)
\* the DEFLATE loop of stream_file after the decompress call that left the
\* decompressor as d2
DeflateFed(g, v, cells, d2, split) ==
    IF ~d2.ok THEN Raised(g, "zlib.error", [v EXCEPT !.pos = @ + Len(cells)])
    ELSE IF d2.output # <<>>
    THEN Suspended(g, [AfterRead(v, cells, d2) EXCEPT
                          !.chunks = Append(@, d2.output)])
    ELSE DeflateResume(g, AfterRead(v, cells, d2), Tail(split))

\* the DEFLATE loop of stream_file after the read
DeflateCells(g, v, cells, split) ==
    IF cells = <<>> THEN DeflateFlush(g, v, Flush(v.d))
    ELSE DeflateFed(g, v, cells, Decompress(v.d, cells, Head(split)), split)

\* `while remaining > 0:` of a DEFLATE entry and the flush, up to the next
\* yield
DeflateResume(g, v, split) ==
    IF g.flushed THEN Ended(g, v)
    ELSE DeflateCells(g, v,
                      IF v.compressed_remaining > 0
                      THEN ReadCells(zip, v.pos,
                                     ChunkSize(g.buffer_size, v.compressed_remaining))
                      ELSE <<>>,
                      split)

\* the flush after the range loop ended as r
RangeFlushed(g, v, r) ==
    IF Len(r.chunks) > Len(v.chunks)
    THEN Suspended([g EXCEPT !.flushed = TRUE], [v EXCEPT !.chunks = r.chunks])
    ELSE Ended(g, v)

RECURSIVE RangeResume(_, _, _)
\* the range loop after an iteration that changed its variables from v to v2
RangeStepped(g, v, v2, split) ==
    IF Len(v2.chunks) > Len(v.chunks) THEN Suspended(g, v2)
    ELSE RangeResume(g, v2, Tail(split))

\* the range loop after the decompress call that left the decompressor as d2
RangeFed(g, v, cells, d2, split) ==
    IF ~d2.ok THEN Raised(g, "zlib.error", [v EXCEPT !.pos = @ + Len(cells)])
    ELSE RangeStepped(g, v, RangeStep(AfterRead(v, cells, d2), d2.output, g.start),
                      split)

\* the range loop after the read
RangeCells(g, v, cells, split) ==
    IF cells = <<>> THEN RangeFlushed(g, v, RangeFinal(v, g.start))
    ELSE RangeFed(g, v, cells, Decompress(v.d, cells, Head(split)), split)

\* `while compressed_remaining > 0 and output_remaining > 0:` of a DEFLATE
\* entry and the flush, up to the next yield
RangeResume(g, v, split) ==
    IF g.flushed THEN Ended(g, v)
    ELSE RangeCells(g, v, RangeRead(v, g.buffer_size), split)

\* the next read of the body is reached: the loop has something left to read
NeedsRead(g, v) ==
    /\ ~g.flushed
    /\ v.compressed_remaining > 0
    /\ (g.op = "stream_file_range" /\ g.method = COMPRESSION_DEFLATE)
          => v.output_remaining > 0

\* next() of a suspended generator, the file handle at v.pos; self._fh.read
\* raises AttributeError when close() has set self._fh to None
GenResume(g, v, split) ==
    IF NeedsRead(g, v) /\ ~fh THEN Raised(g, "AttributeError", v)
    ELSE IF g.method = COMPRESSION_STORED THEN StoreResume(g, v)
    ELSE IF g.op = "stream_file_range" THEN RangeResume(g, v, split)
    ELSE DeflateResume(g, v, split)

\* the body from the local header on: data is the offset of the file data
GenData(g, entry, data, split) ==
    IF data < 0
    THEN Raised(g, HeaderError(data), At(g, entry.local_header_offset + 1))
    ELSE IF entry.compression_method = COMPRESSION_STORED
    THEN StoreResume(g,
            IF g.op = "stream_file_range"
            THEN LoopVars(data + g.start,
                          RangeLength(g.start, g.end, entry.uncompressed_size), 0)
            ELSE LoopVars(data, entry.uncompressed_size, 0))
    ELSE IF entry.compression_method = COMPRESSION_DEFLATE
    THEN IF g.op = "stream_file_range"
         THEN RangeResume(g, LoopVars(data, entry.compressed_size,
                                      RangeLength(g.start, g.end,
                                                  entry.uncompressed_size)),
                          split)
         ELSE DeflateResume(g, LoopVars(data, entry.compressed_size, 0), split)
    ELSE Raised(g, "InvalidZipError", At(g, data))

\* the body once the entry is found: the checks of the range
GenEntry(g, pos, entry, split) ==
    IF g.op = "stream_file_range" /\ RangeInvalid(g.start, g.end)
    THEN Raised(g, "ValueError", At(g, pos))
    ELSE IF g.op = "stream_file_range" /\ g.start >= entry.uncompressed_size
    THEN Ended(g, At(g, pos))
    ELSE GenData([g EXCEPT !.method = entry.compression_method], entry,
                 DataStart(entry), split)

\* the first next(): the body from its start, the lookup having ended as lk
GenStart(g, lk, split) ==
    IF lk.status # "ok" THEN Raised(g, lk.status, At(g, lk.fpos))
    ELSE GenEntry(g, lk.fpos, TheEntry(lk), split)

\* what next() gives the caller: a chunk, StopIteration or the exception
NextStatus(g) ==
    CASE g.st = "suspended" -> "ok"
      [] g.st = "done" -> "StopIteration"
      [] OTHER -> g.status

NextChunk(g) ==
    IF g.st = "suspended" THEN <<g.v.chunks[Len(g.v.chunks)]>> ELSE <<>>

\* a next() that left the generator as g; lk is what the lookup of the first
\* next() did to the reader
GenStepped(id, lk, g) ==
    /\ gen' = [gen EXCEPT ![id] = g]
    /\ Commit([lk EXCEPT !.fpos = g.v.pos])
    /\ last' = Last("next", <<id>>, NextStatus(g), EmptyDict, {}, {}, NextChunk(g))

\* the ways the decompressor may spread its output over the decompress calls
\* of one next() of the generator g: one number of bytes for each read the
\* loop can still make (none for a STORE entry)
GenSplits(g) ==
    IF g.st = "created" THEN Splits(g.path, g.buffer_size)
    ELSE IF g.method # COMPRESSION_DEFLATE THEN {<<>>}
    ELSE {sp \in [1..Calls(g.v.compressed_remaining, g.buffer_size) -> 0..MaxSize] :
             Sum(sp) <= MaxSize}

\* next(g) for the generator named id
GenNext(id, split) ==
    /\ gen[id].st \in {"created", "suspended"}
    /\ IF gen[id].st = "created"
       THEN GenStepped(id, StreamLookup(gen[id].path),
                       GenStart(gen[id], StreamLookup(gen[id].path), split))
       ELSE GenStepped(id, Untouched("ok", EmptyDict),
                       GenResume(gen[id], At(gen[id], fpos), split))
    /\ quota' = None
    /\ UNCHANGED <<zip, cls, metadata, fh, cd_offset, cd_entries_count, cd_size,
                   is_zip64, peer>>

\* g = reader.stream_file(path, buffer_size): no code of the body runs
NewStreamFile(id, path, buffer_size) ==
    /\ gen' = [gen EXCEPT ![id] = NewGen("stream_file", path, 0, 0, buffer_size)]
    /\ last' = Last("generator", <<id>>, "ok", EmptyDict, {}, {}, <<>>)
    /\ UNCHANGED <<zip, cls, metadata, fh, cd_offset, cd_entries_count, cd_size,
                   is_zip64, entries, cd_parsed, fpos, cd_reads, quota, peer>>

\* g = reader.stream_file_range(path, start, end, buffer_size)
NewStreamFileRange(id, path, start, end, buffer_size) ==
    /\ gen' = [gen EXCEPT ![id] =
                  NewGen("stream_file_range", path, start, end, buffer_size)]
    /\ last' = Last("generator", <<id>>, "ok", EmptyDict, {}, {}, <<>>)
    /\ UNCHANGED <<zip, cls, metadata, fh, cd_offset, cd_entries_count, cd_size,
                   is_zip64, entries, cd_parsed, fpos, cd_reads, quota, peer>>

\* the archives the generators are stepped on
GenArchives ==
    {ContentArchive(COMPRESSION_STORED, MaxCSize, MaxCSize),
     ContentArchive(COMPRESSION_DEFLATE, MaxSize, MaxCSize)}

\* a reader whose streams are consumed step by step, with other operations
\* of the same reader in between
InitGen == InitOn(GenArchives) /\ cls = "ZipReader"

\* a generator is obtained under a free name, or under the name of one that
\* is abandoned mid-way
Obtainable(id) == gen[id].st \in {"none", "suspended"}

NextGen ==
    \/ Open
    \/ ParseCentralDirectory(NoStop, None)
    \/ GetEntry(Name(1, ".bin"))
    \/ /\ Obtainable("g1")
       /\ \E path \in {Name(1, ".bin"), Name(2, ".txt")} :
             NewStreamFile("g1", path, 1)
    \/ /\ Obtainable("g1")
       /\ \E r \in {<<0, 0>>, <<0, 1>>, <<1, 1>>}, b \in BufferSizes :
             NewStreamFileRange("g1", Name(1, ".bin"), r[1], r[2], b)
    \/ /\ Obtainable("g2")
       /\ NewStreamFile("g2", Name(1, ".bin"), 1)
    \/ \E id \in GenIds : \E split \in GenSplits(gen[id]) : GenNext(id, split)

SpecGen == InitGen /\ [][NextGen]_vars

\* ------------------------------------------------- two readers
\* A faulty variant: the two readers share one file object.
HandlePosShared(saved, shared) == shared

\* `self._fh = open(self.file_path, 'rb')`: every reader has a file object of
\* its own, so the position at which a reader goes on is the one its own
\* handle was left at (saved), not the one the other reader's handle has
HandlePos(saved, shared) == saved

\* The caller turns to the other reader instance of the same archive file:
\* the variables of the reader worked on so far are kept in peer, the
\* operations that follow act on the other one.
Switch ==
    /\ metadata' = peer[1]
    /\ fh' = peer[2]
    /\ cd_offset' = peer[3]
    /\ cd_entries_count' = peer[4]
    /\ cd_size' = peer[5]
    /\ is_zip64' = peer[6]
    /\ entries' = peer[7]
    /\ cd_parsed' = peer[8]
    /\ fpos' = HandlePos(peer[9], fpos)
    /\ last' = peer[10]
    /\ gen' = peer[11]
    /\ cd_reads' = peer[12]
    /\ quota' = peer[13]
    /\ peer' = ReaderVars
    /\ UNCHANGED <<zip, cls>>

\* two readers of one archive file, each opened once and used in turns
InitPeers ==
    /\ InitOn({ContentArchive(COMPRESSION_STORED, MaxCSize, MaxCSize)})
    /\ cls = "ZipReader"

NextPeers ==
    \/ Open
    \/ \E max_entries \in {None, 1} : ParseCentralDirectory(NoStop, max_entries)
    \/ GetEntry(Name(1, ".bin"))
    \/ /\ Obtainable("g1")
       /\ NewStreamFile("g1", Name(1, ".bin"), 1)
    \/ \E split \in GenSplits(gen["g1"]) : GenNext("g1", split)
    \/ Switch

SpecPeers == InitPeers /\ [][NextPeers]_vars

\* archives in which the last record may repeat the name of the first, with
\* and without the jsonFirst metadata
DupArchives ==
    {DirArchive(n, pat, 0, dup, n, c) :
        n \in 2..MaxEntries, pat \in {"txt", "jsonfirst"}, dup \in BOOLEAN,
        c \in {NoComment, OmeComment(TRUE)}}

\* a reader used on the archives with repeated names
InitDup == InitOn(DupArchives)

SpecDup == InitDup /\ [][Next]_vars

\* ------------------------------------------------- malformed archives
\* the archive a with its EOCD record eocd_dist bytes before the end of the
\* file (0: the record is missing) and a further EOCD signature sig_dist
\* bytes before the end, followed by the bytes of `fake`
WithTail(a, eocd_dist, sig_dist, fake) ==
    [a EXCEPT !.eocd_dist = eocd_dist, !.sig_dist = sig_dist, !.fake = fake,
              !.file = IF eocd_dist = 0
                       THEN SubSeq(a.file, 1, Len(a.file) - 1)
                            \o <<Cell("junk", 0, 0)>>
                       ELSE a.file]

\* the archive a with the local header offset of record i pointing into the
\* data of the entry
WithWrongHeader(a, i) == [a EXCEPT !.recs[i].local_offset = @ + 1]

\* the archive a with the local header offset of record i pointing at a
\* signature in the last bytes of the file, fewer than 30 bytes before its end
WithCutHeader(a, i) ==
    [a EXCEPT !.recs[i].local_offset = Len(a.file),
              !.eocd_dist = EOCD_SIZE + 4,
              !.file = a.file \o <<Cell("lhcut", i, 0)>>]

\* the fields a signature inside a comment is followed by
FakeFields ==
    {[cd_entries_total |-> c, cd_size |-> c, cd_offset |-> c] : c \in 0..1}

\* where the EOCD record and a later signature are: the record alone (at the
\* end, at the edge of the search window, outside it), no record, a record cut
\* by the end of the file, a signature in the comment with fewer than 22 bytes
\* after it and with more
TailDists ==
    {<<EOCD_SIZE, 0>>, <<0, 0>>, <<12, 0>>,
     <<MAX_EOCD_SEARCH_SIZE - 1, 0>>, <<MAX_EOCD_SEARCH_SIZE, 0>>,
     <<MAX_EOCD_SEARCH_SIZE + 1, 0>>, <<40, 10>>, <<60, 30>>}

\* a two-entry archive
TwoEntries == DirArchive(2, "txt", 0, FALSE, 2, NoComment)

MalformedArchives ==
    {WithTail(TwoEntries, d[1], d[2], f) : d \in TailDists, f \in FakeFields}
    \cup {WithTail(DirArchive(2, "txt", 0, FALSE, 2, OmeComment(TRUE)), 60, 30,
                   [cd_entries_total |-> 0, cd_size |-> 0, cd_offset |-> 0])}
    \cup {WithZip64(TwoEntries, {"offset"}, k) :
             k \in LocatorKinds \cup {"cutrecord"}}
    \cup {DirArchive(2, "txt", bad, FALSE, 2, NoComment) : bad \in 1..2}
    \cup {DirArchive(2, "txt", 0, FALSE, 3, NoComment)}
    \cup {WithWrongHeader(TwoEntries, i) : i \in 1..2}
    \cup {WithCutHeader(TwoEntries, i) : i \in 1..2}

\* a reader used on the malformed archives
InitMalformed == InitOn(MalformedArchives)

NextMalformed ==
    \/ Open
    \/ Close
    \/ \E max_entries \in {None, 1} : ParseCentralDirectory(NoStop, max_entries)
    \/ \E json_only \in BOOLEAN : OzxParseCentralDirectory(json_only)
    \/ \E path \in Paths : GetEntry(path)
    \/ \E path \in Paths : CallStreamFile(path, 1, <<>>)
    \/ \E path \in Paths : CallReadFile(path, <<>>)
    \/ \E path \in Paths, end \in 0..1 :
          CallStreamFileRange(path, 0, end, 1, <<>>)

SpecMalformed == InitMalformed /\ [][NextMalformed]_vars

\* a one-entry archive for every comment
MetaArchives == {DirArchive(1, "txt", 0, FALSE, 1, c) : c \in MetaComments}

\* a reader opened, closed and asked for its metadata
InitMeta == InitOn(MetaArchives)

NextMeta ==
    \/ Open
    \/ Close
    \/ GetMetadata
    \/ \E json_only \in BOOLEAN : OzxParseCentralDirectory(json_only)

SpecMeta == InitMeta /\ [][NextMeta]_vars

\* a reader used on the archives with ZIP64 markers in the EOCD
InitEocd == InitOn(EocdArchives)

SpecEocd == InitEocd /\ [][Next]_vars

\* ------------------------------------------------ directory claims
\* the archive's directory is intact: every record has its signature and the
\* EOCD declares exactly the records there are
WellFormed(z) ==
    /\ z.declared = Len(z.recs)
    /\ \A i \in 1..Len(z.recs) : z.recs[i].sig_ok

DistinctNames(z) ==
    \A i, j \in 1..Len(z.recs) : z.recs[i].filename = z.recs[j].filename => i = j

\* filenames of the first n directory records
FirstNames(z, n) == {z.recs[i].filename : i \in 1..Min(n, Len(z.recs))}

\* index of the first malformed record (one past the last record when the
\* EOCD declares more records than there are)
RECURSIVE FirstBad(_, _)
FirstBad(z, i) ==
    IF i > Len(z.recs) \/ ~z.recs[i].sig_ok THEN i ELSE FirstBad(z, i + 1)

\* number of directory records read from the file by the step
ReadsInStep == LET d == [i \in DOMAIN cd_reads |-> cd_reads'[i] - cd_reads[i]]
               IN  Cardinality({i \in DOMAIN d : d[i] > 0})

\* C1: after parse calls with bounds n1..nk (no stop predicate) on a freshly
\* opened ZipReader over an intact directory with distinct names, the registry
\* holds exactly the first min(total, n1+...+nk) directory records.
C1_Resumable ==
    (cls = "ZipReader" /\ fh /\ quota # None /\ WellFormed(zip) /\ DistinctNames(zip))
        => DOMAIN entries = FirstNames(zip, quota)

\* C2: over a ZipReader's lifetime no central-directory record is read from
\* the file more than once: each parse call starts where the previous stopped.
C2_NoRecordReadTwice ==
    cls = "ZipReader" => \A i \in DOMAIN cd_reads : cd_reads[i] <= 1

\* C3: get_entry(name) on an opened reader that has parsed nothing, name being
\* the k-th record with k < total, returns that entry, leaves the registry
\* holding records 1..k only and leaves the fully-parsed flag false.
C3_LazyGetEntry ==
    [][\A k \in 1..(Len(zip.recs) - 1) :
          (/\ fh /\ ~cd_parsed /\ entries = EmptyDict
           /\ WellFormed(zip) /\ DistinctNames(zip)
           /\ zip.recs[k].filename \in Paths
           /\ GetEntry(zip.recs[k].filename))
          => (/\ last'.entry = {ZipEntry(zip, k)}
              /\ DOMAIN entries' = FirstNames(zip, k)
              /\ ~cd_parsed')]_vars

\* C8: when a parse call raises InvalidZipError at a malformed record, every
\* record before it is in the registry after the error.
C8_RetainedOnError ==
    (last.op = "parse_central_directory" /\ last.status = "InvalidZipError")
        => FirstNames(zip, FirstBad(zip, 1) - 1) \subseteq DOMAIN entries

\* every declared directory record is in the registry
AllRecordsParsed ==
    /\ cd_entries_count <= Len(zip.recs)
    /\ \A i \in 1..cd_entries_count :
          /\ zip.recs[i].filename \in DOMAIN entries
          /\ entries[zip.recs[i].filename].filename = zip.recs[i].filename

\* the last call could stop early: it had a stop predicate or an entry bound
\* (json_only for OZXReader)
LastCallBounded ==
    /\ last.op = "parse_central_directory"
    /\ IF cls = "ZipReader"
       THEN last.args[1].kind # "None" \/ last.args[2] # None
       ELSE last.args[1]

\* C9: the fully-parsed flag is true only if every declared directory record
\* is in the registry, and the call that sets it has neither a stop predicate
\* nor an entry bound and read every record.
C9_FlagSound ==
    [][cd_parsed' =>
          /\ AllRecordsParsed'
          /\ ~cd_parsed => (~LastCallBounded' /\ ReadsInStep = cd_entries_count)]_vars

\* a state where the flag was set by a full parse after a partial one
C9_Witness ==
    /\ cd_parsed
    /\ Len(zip.recs) >= 3
    /\ cd_reads[1] = 2
    /\ cd_reads[3] = 1

\* C10: once a parse call ran to the end of the directory without an early
\* stop (the bounds so far add up to the total, the bound is at least the
\* total, or the stop predicate never returned true), the flag is true.
C10_FlagComplete ==
    (/\ cls = "ZipReader" /\ fh /\ WellFormed(zip)
     /\ last.op = "parse_central_directory" /\ last.status = "ok"
     /\ \/ quota # None /\ quota = cd_entries_count
        \/ /\ last.args[1].kind \in {"None", "never"}
           /\ (last.args[2] = None \/ last.args[2] >= cd_entries_count))
        => cd_parsed

\* -------------------------------------------------- content claims
\* the entry the last stream call found
LastEntry == CHOOSE e \in last.entry : TRUE

\* the original bytes of the entry the last stream call found
Original ==
    Content(zip, CHOOSE i \in 1..Len(zip.recs) :
                    zip.recs[i].filename = LastEntry.filename)

\* the last call was `op` and found an entry stored with STORE or DEFLATE
StreamedEntry(op) ==
    /\ last.op = op
    /\ last.entry # {}
    /\ LastEntry.compression_method \in {COMPRESSION_STORED, COMPRESSION_DEFLATE}

\* C4: for a STORE or DEFLATE entry with content B, 0 <= start <= end < size
\* and any buffer size and any chunking of the decompressor's output, the
\* chunks of stream_file_range(name, start, end, buffer_size) concatenate to
\* B[start..end] inclusive.
C4_RangeCorrect ==
    (/\ StreamedEntry("stream_file_range")
     /\ 0 <= last.args[2] /\ last.args[2] <= last.args[3]
     /\ last.args[3] < LastEntry.uncompressed_size)
        => /\ last.status = "ok"
           /\ Concat(last.chunks) = SubSeq(Original, last.args[2] + 1, last.args[3] + 1)

\* a range inside a DEFLATE entry that starts inside the first decompressed
\* chunk and was yielded as two chunks
C4_Witness ==
    /\ StreamedEntry("stream_file_range")
    /\ LastEntry.compression_method = COMPRESSION_DEFLATE
    /\ last.args[2] = 1 /\ last.args[3] = 2
    /\ LastEntry.uncompressed_size > 2
    /\ last.status = "ok"
    /\ Len(last.chunks) = 2

\* C5: for 0 <= start <= end, stream_file_range on a STORE or DEFLATE entry
\* yields nothing when start >= uncompressed_size, and the bytes from start
\* through the last byte of the entry when end >= uncompressed_size.
C5_OutOfBounds ==
    (/\ StreamedEntry("stream_file_range")
     /\ 0 <= last.args[2] /\ last.args[2] <= last.args[3]
     /\ last.args[3] >= LastEntry.uncompressed_size)
        => /\ last.status = "ok"
           /\ Concat(last.chunks) =
                 IF last.args[2] >= LastEntry.uncompressed_size THEN <<>>
                 ELSE SubSeq(Original, last.args[2] + 1, LastEntry.uncompressed_size)

\* a range of a DEFLATE entry whose end lies past the entry and that yielded
\* bytes
C5_Witness ==
    /\ StreamedEntry("stream_file_range")
    /\ LastEntry.compression_method = COMPRESSION_DEFLATE
    /\ last.args[2] = 1
    /\ last.args[3] > LastEntry.uncompressed_size
    /\ last.status = "ok"
    /\ last.chunks # <<>>

\* C6: stream_file_range on an existing entry with start < 0 or end < start
\* raises ValueError and yields no bytes, whatever the entry's size and
\* compression method, also when start >= size.
C6_InvalidRange ==
    (/\ last.op = "stream_file_range"
     /\ last.entry # {}
     /\ (last.args[2] < 0 \/ last.args[3] < last.args[2]))
        => /\ last.status = "ValueError"
           /\ last.chunks = <<>>

\* end < start on a range that starts past the end of the entry
C6_Witness ==
    /\ last.op = "stream_file_range"
    /\ last.entry # {}
    /\ last.args[3] < last.args[2]
    /\ last.args[3] >= 0
    /\ last.args[2] >= LastEntry.uncompressed_size
    /\ last.status = "ValueError"

\* C7: for a STORE or DEFLATE entry and any buffer size, the chunks of
\* stream_file concatenate to the original content, which is also what
\* read_file returns; for STORE the total yielded is uncompressed_size bytes
\* and no chunk is longer than buffer_size.
C7_RoundTrip ==
    /\ StreamedEntry("stream_file")
          => /\ last.status = "ok"
             /\ Concat(last.chunks) = Original
             /\ LastEntry.compression_method = COMPRESSION_STORED
                   => /\ Len(Concat(last.chunks)) = LastEntry.uncompressed_size
                      /\ \A j \in 1..Len(last.chunks) :
                            Len(last.chunks[j]) <= last.args[2]
    /\ StreamedEntry("read_file")
          => /\ last.status = "ok"
             /\ last.chunks = <<Original>>

\* a STORE entry streamed in more than two chunks
C7_Witness ==
    /\ StreamedEntry("stream_file")
    /\ LastEntry.compression_method = COMPRESSION_STORED
    /\ last.status = "ok"
    /\ Len(last.chunks) > 2

\* ------------------------------------------------- registry claims
\* C11: the entry registry only grows: every filename in the registry before
\* an operation (parse, get_entry, list_files, read_file, stream_file,
\* stream_file_range, open, close; raising or not) is in it afterwards.
C11_RegistryGrows == [][DOMAIN entries \subseteq DOMAIN entries']_vars

\* a parse call raised on a reader whose registry already held a record
C11_Witness ==
    /\ last.op = "parse_central_directory"
    /\ last.status = "InvalidZipError"
    /\ DOMAIN entries # {}

\* number of directory records parsed so far: the index of the next
\* unparsed record
RecordsParsed == Cardinality({i \in DOMAIN cd_reads : cd_reads[i] > 0})

\* C12: on a ZipReader that was only opened and parsed without stop predicate
\* (bounded or not), over any intact directory, also one with a repeated
\* filename, the registry has as many entries as records were parsed and
\* holds exactly the first records.
C12_CursorRegistry ==
    (cls = "ZipReader" /\ fh /\ quota # None /\ WellFormed(zip))
        => /\ Cardinality(DOMAIN entries) = RecordsParsed
           /\ DOMAIN entries = FirstNames(zip, RecordsParsed)

\* ------------------------------------------------ parse-call claims
\* what the caller's predicate answers for the k-th record (1-based) at its
\* absolute 0-based index k - 1
PredicateAt(stop, k) ==
    \/ stop.kind = "index_ge" /\ k - 1 >= stop.k
    \/ stop.kind = "filename_eq" /\ zip.recs[k].filename = stop.name

RECURSIVE FirstStop(_, _, _)
\* position (1-based) of the first of the records k..n for which the stop
\* predicate, given the record and its absolute 0-based index, is true; n if
\* there is none
FirstStop(stop, k, n) ==
    IF k >= n THEN n
    ELSE IF PredicateAt(stop, k) THEN k
    ELSE FirstStop(stop, k + 1, n)

\* number of records a parse call with this predicate and bound parses
StoppingPoint(stop, max_entries) ==
    FirstStop(stop, 1, IF max_entries = None THEN cd_entries_count
                       ELSE Min(max_entries, cd_entries_count))

\* the last record among the first n that carries the filename
LastNamed(filename, n) ==
    CHOOSE i \in 1..n :
        /\ zip.recs[i].filename = filename
        /\ \A j \in (i + 1)..n : zip.recs[j].filename # filename

\* C13: a parse call of a ZipReader over an intact directory returns the
\* records in directory order up to and including the first one for which
\* the stop predicate (given the absolute 0-based index) is true, or up to
\* the entry bound, whichever comes first (nothing with bound 0); when the
\* call parsed, the file is read up to that record and no further.
C13_StoppingRule ==
    (/\ cls = "ZipReader" /\ WellFormed(zip)
     /\ last.op = "parse_central_directory" /\ last.status = "ok"
     /\ (~cd_parsed \/ (last.args[1].kind = "None" /\ last.args[2] = None)))
        => LET n == StoppingPoint(last.args[1], last.args[2])
           IN  /\ DOMAIN last.dict = FirstNames(zip, n)
               /\ \A f \in DOMAIN last.dict :
                     last.dict[f] = ZipEntry(zip, LastNamed(f, n))
               /\ ~cd_parsed => fpos = cd_offset + n

\* a call whose predicate stopped it at the second of four records
C13_Witness ==
    /\ cls = "ZipReader" /\ WellFormed(zip) /\ Len(zip.recs) = 4
    /\ last.op = "parse_central_directory" /\ last.status = "ok"
    /\ last.args[1].kind = "index_ge" /\ last.args[1].k = 1
    /\ last.args[2] = None
    /\ Cardinality(DOMAIN last.dict) = 2
    /\ fpos = cd_offset + 2

\* C14: get_entry(name) on an open reader for a name that is already in the
\* registry returns the cached entry, reads no directory record and leaves
\* the file position, the registry and the fully-parsed flag as they were.
C14_CachedGetEntry ==
    [][\A path \in Paths :
          (fh /\ path \in DOMAIN entries /\ GetEntry(path))
          => (/\ last'.status = "ok"
              /\ last'.entry = {entries[path]}
              /\ cd_reads' = cd_reads
              /\ fpos' = fpos
              /\ entries' = entries
              /\ cd_parsed' = cd_parsed)]_vars

\* the filenames of the directory records that are files (no trailing '/')
\* and start with the prefix ("" is prefix 0, otherwise the stem)
FilesOnDisk(prefix) ==
    {zip.recs[i].filename : i \in {j \in 1..Len(zip.recs) :
        /\ zip.recs[j].filename.suffix # "/"
        /\ (prefix = 0 \/ zip.recs[j].filename.stem = prefix)}}

\* C15: list_files(prefix), after whatever partial parses came before,
\* returns exactly the filenames of the non-directory records that start
\* with prefix and leaves the directory fully parsed; the set depends on the
\* archive and the prefix only, so a second call returns the same set.
C15_ListFiles ==
    (last.op = "list_files" /\ last.status = "ok")
        => /\ last.files = FilesOnDisk(last.args[1])
           /\ cd_parsed
           /\ AllRecordsParsed

\* a listing after a partial parse, of an archive whose first record is a
\* directory
C15_Witness ==
    /\ last.op = "list_files" /\ last.status = "ok"
    /\ zip.recs[1].filename.suffix = "/"
    /\ cd_reads[1] = 2
    /\ last.files # {}

\* ---------------------------------------------------- ZIP64 claims
\* the entry holds the marker in one of its sentinel-eligible fields
HasSentinel(e) ==
    \/ e.compressed_size = ZIP64_MARKER
    \/ e.uncompressed_size = ZIP64_MARKER
    \/ e.local_header_offset = ZIP64_MARKER

\* the entries a caller can see: the registry, the dict a parse call
\* returned, the entry get_entry returned
Exposed ==
    {entries[f] : f \in DOMAIN entries}
    \cup {last.dict[f] : f \in DOMAIN last.dict}
    \cup last.entry

\* C16: no entry exposed to a caller (registry, returned dict, get_entry)
\* has compressed_size, uncompressed_size or local_header_offset equal to
\* the ZIP64 marker.
C16_NoSentinelExposed == \A e \in Exposed : ~HasSentinel(e)


\* the archive has a ZIP64 EOCD record and, right in front of the EOCD, a
\* locator for it
Backed(z) ==
    /\ Len(z.file) >= 3
    /\ z.file[Len(z.file) - 1].t = "loc"
    /\ z.file[Len(z.file) - 2].t = "eocd64"

\* the registry a full parse of the classic archive with the same directory
\* gives: one entry for each record
ClassicEntries(z) ==
    [n \in FirstNames(z, Len(z.recs)) |->
        ZipEntry(z, CHOOSE i \in 1..Len(z.recs) : z.recs[i].filename = n)]

BinaryName(filename) ==
    filename.suffix \notin {"/", ".json", ".JSON", ".zattrs", ".ZATTRS",
                            ".zarray", ".zgroup"}

RECURSIVE FirstBinary(_, _)
\* index of the first record from i on with a binary name (the last declared
\* record when there is none)
FirstBinary(z, i) ==
    IF i >= cd_entries_count \/ BinaryName(z.recs[i].filename) THEN i
    ELSE FirstBinary(z, i + 1)

\* C18: with json_first metadata, parse_central_directory(json_only=True)
\* reads the records in directory order up to and including the first one
\* that is neither a directory nor a JSON metadata file (suffix compared
\* case-insensitively), returns exactly those and reads no record behind it.
C18_JsonFirstStop ==
    [][(/\ cls = "OZXReader" /\ metadata # {}
        /\ \A x \in metadata : x.json_first
        /\ last'.op = "parse_central_directory" /\ last'.args = <<TRUE>>
        /\ last'.status = "ok")
          => /\ DOMAIN last'.dict = FirstNames(zip, FirstBinary(zip, 1))
             /\ \A i \in DOMAIN cd_reads :
                   cd_reads'[i] - cd_reads[i]
                      = IF i <= FirstBinary(zip, 1) THEN 1 ELSE 0
             /\ fpos' = cd_offset + FirstBinary(zip, 1)]_vars

\* a json_only parse of a directory ordered [json, json, binary, json] that
\* returned the first three records
C18_Witness ==
    /\ cls = "OZXReader" /\ metadata # {}
    /\ \A x \in metadata : x.json_first
    /\ last.op = "parse_central_directory" /\ last.args = <<TRUE>>
    /\ last.status = "ok"
    /\ Len(zip.recs) = 4
    /\ [i \in 1..4 |-> zip.recs[i].filename.suffix]
          = <<".json", ".json", ".bin", ".json">>
    /\ DOMAIN last.dict = FirstNames(zip, 3)
    /\ entries = last.dict
    /\ fpos = cd_offset + 3


\* the step left the reader as a call with outcome o does
SameAs(o) ==
    /\ last'.status = o.status
    /\ last'.dict = o.ret
    /\ entries' = o.entries
    /\ fpos' = o.fpos
    /\ cd_parsed' = o.cd_parsed

\* C19: without metadata, or with json_first false, a call
\* parse_central_directory(json_only=True) returns the same entries and
\* leaves the same registry, file position and fully-parsed flag as
\* parse_central_directory(json_only=False) from the same reader state.
C19_JsonOnlyOrdinary ==
    [][(/\ cls = "OZXReader" /\ \A x \in metadata : ~x.json_first
        /\ last'.op = "parse_central_directory" /\ last'.args = <<TRUE>>)
          => SameAs(OzxParse(FALSE))]_vars


\* the member of the object v under key, as a set: empty when v is no object
\* or has no such member
Under(v, key) == IF v.k = "obj" /\ key \in DOMAIN v.m THEN {v.m[key]} ELSE {}

\* the "ome" objects of the comment that contain a "version" key
OmeOf(comment) ==
    IF comment.t # "json" THEN {}
    ELSE {o \in Under(comment.v, "ome") : Under(o, "version") # {}}

\* the values at ome.zipFile.centralDirectory.jsonFirst
JsonFirstAt(ome) ==
    UNION {UNION {Under(cd, "jsonFirst") : cd \in Under(z, "centralDirectory")} :
              z \in Under(ome, "zipFile")}

\* the version value as a string
AsString(v) ==
    CASE v = JNull -> "None"
      [] v = JBool(TRUE) -> "True"
      [] v = JBool(FALSE) -> "False"
      [] OTHER -> v.s

\* C20: opening an OZXReader and get_metadata raise for no ZIP comment; the
\* metadata is None when the comment is empty, no valid JSON or without an
\* "ome" object that has a "version" key; otherwise its version is the
\* version value as a string, its raw_comment the comment, and its json_first
\* the boolean at ome.zipFile.centralDirectory.jsonFirst, false when that
\* path does not exist.
C20_MetadataTotal ==
    (cls = "OZXReader" /\ last.op \in {"open", "get_metadata"} /\ fh) =>
        /\ last.status = "ok"
        /\ last.op = "get_metadata" => last.entry = metadata
        /\ OmeOf(zip.comment) = {} => metadata = {}
        /\ \A ome \in OmeOf(zip.comment) :
              /\ Cardinality(metadata) = 1
              /\ \A x \in metadata :
                    /\ x.version = AsString(ome.m["version"])
                    /\ x.raw_comment = zip.comment
                    /\ JsonFirstAt(ome) = {} => ~x.json_first
                    /\ \A b \in BOOLEAN :
                          JsonFirstAt(ome) = {JBool(b)} => x.json_first = b


\* the operations that need an open reader
ReaderOps ==
    {"parse_central_directory", "get_entry", "list_files", "read_file",
     "stream_file", "stream_file_range"}

\* C21: every reader operation called while the reader is not open (before
\* open() or after close(), also with the directory fully parsed before the
\* close) fails with ZipReaderError and returns no data.
C21_NotOpenedError ==
    (~fh /\ last.op \in ReaderOps) =>
        /\ last.status = "ZipReaderError"
        /\ last.dict = EmptyDict /\ last.entry = {} /\ last.files = {}
        /\ last.chunks = <<>>


\* the scope of the reader has been left: close() (also __exit__) returned,
\* or open() (also __enter__, after which __exit__ is not run) raised
ScopeLeft == last.op = "close" \/ (last.op = "open" /\ last.status # "ok")

\* C22: once the scope of a reader is left, on the normal path, after an
\* exception inside it or after open() raised InvalidZipError, the reader
\* holds no open file handle.
C22_ScopedHandle == ScopeLeft => ~fh


\* the directory records whose compression method is neither STORE nor DEFLATE
UnsupportedRecords ==
    {i \in 1..Len(zip.recs) : zip.recs[i].compression \notin {0, 8}}

\* the last call was a stream call that has content to extract: read_file,
\* stream_file, or stream_file_range with a valid range that starts inside
\* the entry
Extracts(size) ==
    \/ last.op \in {"read_file", "stream_file"}
    \/ /\ last.op = "stream_file_range"
       /\ 0 <= last.args[2] /\ last.args[2] <= last.args[3]
       /\ last.args[2] < size

\* C23: an entry with an unsupported compression method is parsed, looked up
\* and listed like any other entry; extracting its content with read_file,
\* stream_file or stream_file_range raises InvalidZipError, and no stream call
\* yields a byte for it.
C23_UnsupportedMethod ==
    \A i \in UnsupportedRecords :
        /\ (fh /\ last.op \in {"parse_central_directory", "get_entry", "list_files"})
              => last.status = "ok"
        /\ (fh /\ last.op = "parse_central_directory" /\ cd_parsed)
              => /\ zip.recs[i].filename \in DOMAIN last.dict
                 /\ last.dict[zip.recs[i].filename].compression_method
                       = zip.recs[i].compression
        /\ (fh /\ last.op = "get_entry" /\ last.args = <<zip.recs[i].filename>>)
              => \E e \in last.entry :
                    e.compression_method = zip.recs[i].compression
        /\ (fh /\ last.op = "list_files" /\ last.args = <<0>>)
              => zip.recs[i].filename \in last.files
        /\ (fh /\ last.op \in StreamOps /\ last.args[1] = zip.recs[i].filename)
              => /\ last.chunks = <<>>
                 /\ Extracts(zip.recs[i].uncomp_size)
                       => last.status = "InvalidZipError"

\* a stream_file call on an entry with an unsupported method, after a
\* directory parse that returned the entry
C23_Witness ==
    /\ UnsupportedRecords = {1}
    /\ fh /\ cd_parsed
    /\ zip.recs[1].filename \in DOMAIN entries
    /\ last.op = "stream_file" /\ last.args[1] = zip.recs[1].filename
    /\ last.status = "InvalidZipError"
    /\ last.chunks = <<>>


\* the filenames of all directory records of the archive
AllNames(z) == {z.recs[i].filename : i \in 1..Len(z.recs)}

\* C24: on an open reader over an intact directory, read_file, stream_file
\* and stream_file_range raise FileNotFoundError exactly for the names that
\* are in no directory record, and then the directory has been parsed to its
\* end; a name in a record that no earlier call parsed is found.
C24_NotFoundAfterFullParse ==
    (fh /\ WellFormed(zip) /\ last.op \in StreamOps) =>
        IF last.args[1] \in AllNames(zip)
        THEN /\ last.status # "FileNotFoundError"
             /\ \E e \in last.entry : e.filename = last.args[1]
        ELSE /\ last.status = "FileNotFoundError"
             /\ last.chunks = <<>>
             /\ cd_parsed
             /\ AllNames(zip) \subseteq DOMAIN entries

\* a stream_file call that found the second entry after a parse bounded to
\* the first record
C24_Witness ==
    /\ fh /\ WellFormed(zip) /\ Len(zip.recs) >= 2
    /\ last.op = "stream_file" /\ last.status = "ok"
    /\ last.args[1] = zip.recs[2].filename
    /\ last.chunks # <<>>
    /\ cd_reads[1] = 2 /\ cd_reads[2] = 1


\* ------------------------------------------------- generator claims
\* the generator is a stream_file_range of the DEFLATE entry i
DeflateRange(g, i) ==
    /\ g.op = "stream_file_range"
    /\ i \in 1..Len(zip.recs)
    /\ zip.recs[i].filename = g.path
    /\ zip.recs[i].compression = 8
    /\ g.st \in {"suspended", "done"}

\* number of bytes the generator has yielded
YieldedBytes(g) == Sum([j \in 1..Len(g.v.chunks) |-> Len(g.v.chunks[j])])

\* end - start + 1 for the range of the generator, end clamped to the entry
RequestedBytes(g, i) ==
    (IF g.end < zip.recs[i].uncomp_size THEN g.end ELSE zip.recs[i].uncomp_size - 1)
    - g.start + 1

\* the step is a next() of the generator named id
NextOf(id) == last'.op = "next" /\ last'.args = <<id>>

\* C26 (as the code has it): a stream_file_range generator of a DEFLATE entry
\* starts reading at the start of the entry's data, its first chunk starts
\* with the byte at position start, and once end - start + 1 bytes have been
\* yielded the next() that follows reads nothing and ends the generator.
C26_NoReadAfterRange ==
    [][\A id \in GenIds, i \in 1..Len(zip.recs) :
          /\ (NextOf(id) /\ gen[id].st = "created" /\ DeflateRange(gen'[id], i)
               /\ last'.status = "ok")
                => /\ last'.chunks[1][1] = Content(zip, i)[gen[id].start + 1]
                   /\ fpos' = zip.recs[i].local_offset + 1
                              + (zip.recs[i].comp_size
                                 - gen'[id].v.compressed_remaining)
          /\ (NextOf(id) /\ DeflateRange(gen[id], i)
               /\ YieldedBytes(gen[id]) = RequestedBytes(gen[id], i))
                => /\ fpos' = fpos
                   /\ last'.status = "StopIteration"]_vars

\* the generator of a range that ends before the end of the entry ended after
\* its bytes, with compressed data left unread
C26_Witness ==
    /\ last.op = "next" /\ last.args = <<"g1">> /\ last.status = "StopIteration"
    /\ DeflateRange(gen["g1"], 1)
    /\ gen["g1"].end < zip.recs[1].uncomp_size - 1
    /\ YieldedBytes(gen["g1"]) = RequestedBytes(gen["g1"], 1)
    /\ gen["g1"].v.compressed_remaining > 0

\* C26 as stated: when the range ends before the end of the DEFLATE entry,
\* the generator ends with compressed data of the entry left unread.
C26_CompressedNotReadToEnd ==
    \A id \in GenIds, i \in 1..Len(zip.recs) :
        (/\ DeflateRange(gen[id], i) /\ gen[id].st = "done"
         /\ gen[id].start < zip.recs[i].uncomp_size
         /\ gen[id].end < zip.recs[i].uncomp_size - 1)
            => gen[id].v.compressed_remaining > 0

\* the bytes a generator over entry i has to yield in all: the entry, or the
\* bytes start..end of it
GenExpected(g, i) ==
    IF g.op = "stream_file" THEN Content(zip, i)
    ELSE SubSeq(Content(zip, i), g.start + 1,
                (IF g.end < zip.recs[i].uncomp_size THEN g.end
                 ELSE zip.recs[i].uncomp_size - 1) + 1)

\* C30: a generator that ended has yielded the correct bytes of its entry,
\* whatever the same reader did between its steps (parse_central_directory,
\* get_entry, steps of another generator, a new generator after an abandoned
\* one).
C30_UndisturbedStream ==
    \A id \in GenIds, i \in 1..Len(zip.recs) :
        (gen[id].st = "done" /\ zip.recs[i].filename = gen[id].path)
            => Concat(gen[id].v.chunks) = GenExpected(gen[id], i)

\* the same for a reader on which no second generator was obtained
C30_AloneUndisturbed ==
    gen["g2"].st = "none" => C30_UndisturbedStream

\* ------------------------------------------------- lookup claims
\* what get_entry(filename) returns on a reader that was just opened: the
\* entry of the last record with the name, nothing when no record has it
FreshLookup(filename) ==
    IF filename \in AllNames(zip)
    THEN {ZipEntry(zip, LastNamed(filename, Len(zip.recs)))}
    ELSE {}

\* C29: on an open reader, get_entry(name) returns what it returns on a
\* reader that was just opened, whatever parses (bounded, predicate-stopped,
\* json_only) and lookups were performed before the call, also when two
\* records carry the name.
C29_LookupDeterminism ==
    (fh /\ WellFormed(zip) /\ last.op = "get_entry" /\ last.status = "ok")
        => last.entry = FreshLookup(last.args[1])

\* the same for a ZipReader only
C29_ZipReaderDeterminism == cls = "ZipReader" => C29_LookupDeterminism

\* ------------------------------------------------- EOCD claims
\* the archive has its EOCD record where a ZIP file has it: whole, and with
\* a comment of at most 65535 bytes after it
TrueEocd(z) == z.eocd_dist >= 22 /\ z.eocd_dist <= 65557

\* no EOCD signature starts in the last min(65557, file_size) bytes
NoSignature(z) ==
    \A d \in {z.eocd_dist, z.sig_dist} : d = 0 \/ d > 65557

\* C28, the window: open() raises InvalidZipError when no signature starts
\* in the last min(65557, file_size) bytes of the file.
C28_Window ==
    (last.op = "open" /\ NoSignature(zip)) => last.status = "InvalidZipError"

\* C28, the comment: an archive with its true EOCD in the window is opened
\* with the offset and entry count of that record, and an OZX reader gets the
\* metadata of its comment, also when the comment contains the signature.
C28_TrueRecord ==
    (last.op = "open" /\ TrueEocd(zip) /\ zip.eocd_marked = {})
        => /\ last.status = "ok"
           /\ cd_offset = zip.cd_offset
           /\ cd_entries_count = zip.declared
           /\ (cls = "OZXReader" /\ zip.comment = OmeComment(TRUE))
                 => metadata # {}

\* C28: open() takes the last EOCD signature in the last min(65557,
\* file_size) bytes, raises InvalidZipError when there is none, and opens an
\* archive whose comment contains the signature with its true EOCD record.
C28_EocdLocation == C28_Window /\ C28_TrueRecord

\* the same for the archives with no signature after the EOCD record
C28_PlainTrueRecord == zip.sig_dist = 0 => C28_TrueRecord

\* ------------------------------------------------- malformed input claims
\* the EOCD record is missing or cut by the end of the file
BadEocd(z) == z.eocd_dist < 22 /\ z.sig_dist = 0

\* the EOCD sends the reader to the ZIP64 records, and the locator in front
\* of the EOCD or the record it points to is not a whole record of its kind
BadZip64(z) ==
    /\ z.eocd_marked # {}
    /\ \/ z.file[Len(z.file) - 1].t # "loc"
       \/ z.file[z.eocd64_offset + 1].t # "eocd64"

\* the local header of record i is not a whole local header
BadHeader(z, i) == z.file[z.recs[i].local_offset + 1].t # "lh"

\* the last call went through the whole central directory of an open reader
MeetsDirectory ==
    /\ fh
    /\ \/ last.op \in {"get_entry", "read_file", "stream_file", "stream_file_range"}
       \/ /\ last.op = "parse_central_directory"
          /\ cls = "ZipReader" => last.args[2] = None

\* C27: a missing or truncated EOCD and a wrong or truncated ZIP64 locator
\* or ZIP64 EOCD record make open() raise InvalidZipError; a wrong-signature
\* or truncated central-directory record makes the parse, lookup or stream
\* call that reaches it raise InvalidZipError; a wrong-signature or truncated
\* local file header makes read_file, stream_file and stream_file_range of
\* its entry raise InvalidZipError.
C27_MalformedIsInvalidZip ==
    /\ (last.op = "open" /\ (BadEocd(zip) \/ BadZip64(zip)))
          => last.status = "InvalidZipError"
    /\ (MeetsDirectory /\ ~WellFormed(zip)) => last.status = "InvalidZipError"
    /\ \A i \in 1..Len(zip.recs) :
          (/\ fh /\ WellFormed(zip) /\ BadHeader(zip, i)
           /\ last.op \in StreamOps /\ last.args[1] = zip.recs[i].filename)
              => last.status = "InvalidZipError"

\* no record of the archive is cut by the end of the file
NoCut(z) == \A k \in 1..Len(z.file) : z.file[k].t \notin {"lhcut", "eocd64cut"}

\* the same for the archives whose ZIP64 EOCD record and local headers are
\* whole or carry a wrong signature
C27_WrongSignatureIsInvalidZip == NoCut(zip) => C27_MalformedIsInvalidZip

\* ------------------------------------------------- two-reader claims
\* a generator that ended has yielded the bytes of its entry
GenCorrect(g) ==
    \A i \in 1..Len(zip.recs) :
        (g.st = "done" /\ zip.recs[i].filename = g.path)
            => Concat(g.v.chunks) = GenExpected(g, i)

\* C25: with two readers of one archive file used in any interleaving, a
\* step of one reader leaves every variable of the other (registry, parsed
\* flag, file position, generators, last result) as it was, a reader goes on
\* exactly where it was left, and a stream consumed in steps between which
\* the other reader parsed, looked up and streamed has yielded the bytes of
\* its entry.
C25_ReadersIndependent ==
    [][/\ \/ peer' = peer
          \/ ReaderVars' = peer /\ peer' = ReaderVars
       /\ GenCorrect(gen'["g1"])]_vars

\* a stream of one reader ended with all its bytes while the other reader,
\* whose handle is elsewhere, has a stream half consumed
C25_Witness ==
    /\ gen["g1"].st = "done"
    /\ gen["g1"].v.chunks # <<>>
    /\ peer[11]["g1"].st = "suspended"
    /\ peer[2]
    /\ peer[9] # fpos

====
